---- MODULE Spec2Model ----
(***************************************************************************)
(* CircleHash64f (fxamacker/circlehash): the seeded 64-bit digest and its  *)
(* three entry points Hash64, Hash64String and Hash64Uint64x2.             *)
(*                                                                         *)
(* TLC's integers are 32 bits wide, so a uint64 is kept as its eight       *)
(* base-256 digits, least significant digit first.  Every uint64 operator  *)
(* the code uses (^, |, <<, the 64x64->128 multiplication) is computed on  *)
(* the digits and wraps at 2^64 exactly as the Go value does.              *)
(***************************************************************************)
EXTENDS Integers, Sequences, FiniteSets, TLC

-----------------------------------------------------------------------------
(* uint64 arithmetic *)

Byte == 0..255

Word == [1..8 -> Byte]

\* bit i (0 = least significant) of the byte x
Bit(x, i) == (x \div (2 ^ i)) % 2

\* x ^ y on bytes, tabulated once
XorByte ==
  [x \in Byte |-> [y \in Byte |->
     LET d(i) == ((Bit(x, i) + Bit(y, i)) % 2) * (2 ^ i)
     IN  d(0) + d(1) + d(2) + d(3) + d(4) + d(5) + d(6) + d(7)]]

\* x | y on bytes, tabulated once
OrByte ==
  [x \in Byte |-> [y \in Byte |->
     LET d(i) == (IF Bit(x, i) + Bit(y, i) > 0 THEN 1 ELSE 0) * (2 ^ i)
     IN  d(0) + d(1) + d(2) + d(3) + d(4) + d(5) + d(6) + d(7)]]

\* Go's a ^ b on uint64
XOR(a, b) ==
  <<XorByte[a[1]][b[1]], XorByte[a[2]][b[2]], XorByte[a[3]][b[3]], XorByte[a[4]][b[4]],
    XorByte[a[5]][b[5]], XorByte[a[6]][b[6]], XorByte[a[7]][b[7]], XorByte[a[8]][b[8]]>>

\* Go's a | b on uint64
OR(a, b) ==
  <<OrByte[a[1]][b[1]], OrByte[a[2]][b[2]], OrByte[a[3]][b[3]], OrByte[a[4]][b[4]],
    OrByte[a[5]][b[5]], OrByte[a[6]][b[6]], OrByte[a[7]][b[7]], OrByte[a[8]][b[8]]>>

\* Go's a << (8*k) on uint64: the digits move up k places, the top k are lost
ShlBytes(a, k) ==
  LET digit(i) == IF i > k THEN a[i - k] ELSE 0
  IN  <<digit(1), digit(2), digit(3), digit(4), digit(5), digit(6), digit(7), digit(8)>>

\* the conversion uint64(n) of a non-negative length or byte value
ToWord(n) ==
  <<n % 256, (n \div 256) % 256, (n \div 65536) % 256, (n \div 16777216) % 256,
    0, 0, 0, 0>>

\* a uint64 constant written as in the source, most significant byte first
U64(b7, b6, b5, b4, b3, b2, b1, b0) == <<b0, b1, b2, b3, b4, b5, b6, b7>>

Zero64 == ToWord(0)

\* column k (0..15) of the schoolbook product of the digits of a and b
MulColumn(a, b, k) ==
  LET term(i) == IF k - i >= 0 /\ k - i <= 7 THEN a[i + 1] * b[k - i + 1] ELSE 0
  IN  term(0) + term(1) + term(2) + term(3) + term(4) + term(5) + term(6) + term(7)

RECURSIVE MulDigits(_, _, _, _)
\* digits k..15 of the 128-bit product a * b, given the carry into column k
MulDigits(a, b, k, carry) ==
  IF k > 15 THEN <<>>
  ELSE LET s == MulColumn(a, b, k) + carry
       IN  <<s % 256>> \o MulDigits(a, b, k + 1, s \div 256)

\* math/bits.Mul64: the full 128-bit product as (hi, lo)
Mul64(a, b) ==
  LET d == MulDigits(a, b, 0, 0)
  IN  [hi |-> <<d[9], d[10], d[11], d[12], d[13], d[14], d[15], d[16]>>,
       lo |-> <<d[1], d[2], d[3], d[4], d[5], d[6], d[7], d[8]>>]

\* mix64 on a multiplication truncated to 64 bits: the low half alone
mix64Truncated(a, b) ==
  LET m == Mul64(a, b)
  IN  m.lo

\* mix64 folds the 128-bit product of a and b by XOR of its halves
mix64(a, b) ==
  LET m == Mul64(a, b)
  IN  XOR(m.hi, m.lo)

-----------------------------------------------------------------------------
(* constants *)

pi0 == U64(36, 63, 106, 136, 133, 163, 8, 211)     \* 0x243F6A8885A308D3
pi1 == U64(19, 25, 138, 46, 3, 112, 115, 68)       \* 0x13198A2E03707344
pi2 == U64(164, 9, 56, 34, 41, 159, 49, 208)       \* 0xA4093822299F31D0
pi3 == U64(8, 46, 250, 152, 236, 78, 108, 137)     \* 0x082EFA98EC4E6C89
pi4 == U64(69, 40, 33, 230, 56, 208, 19, 119)      \* 0x452821E638D01377


\* seeds of the test suite
numsAllZeros == U64(0, 0, 0, 0, 0, 0, 0, 0)
numsGoldenRatio == U64(158, 55, 121, 185, 127, 74, 124, 21)   \* 0x9E3779B97F4A7C15
numsAll55s == U64(85, 85, 85, 85, 85, 85, 85, 85)            \* 0x5555555555555555
numsAllAAs == U64(170, 170, 170, 170, 170, 170, 170, 170)    \* 0xAAAAAAAAAAAAAAAA
numsAllFFs == U64(255, 255, 255, 255, 255, 255, 255, 255)    \* 0xFFFFFFFFFFFFFFFF

-----------------------------------------------------------------------------
(* bounds and inputs *)

\* longest input hashed: two bulk iterations and a tail
MaxLen == 130

\* largest start offset of the input inside its buffer (data[i:])
MaxOff == 2

\* callers sharing the buffer
NThreads == 2

Threads == 1..NThreads

BufLen == MaxOff + MaxLen

\* data00FF of the tests: data[i] = uint8(i)
data00FF == [i \in 1..BufLen |-> (i - 1) % 256]

\* a buffer of period two: equal content at offsets 0 and 2
dataA53C == [i \in 1..BufLen |-> IF i % 2 = 1 THEN 165 ELSE 60]

Buffers == {data00FF, dataA53C}

Seeds == {numsAllZeros, numsGoldenRatio}

Builds == {"go1.17", "oldgo"}

\* bytes a read outside the allocated object may find there
Garbage == {0, 255}

\* outcomes of a read outside the allocated object: the access faults, or
\* it yields whatever byte happens to sit there
UB == {[fault |-> TRUE, byte |-> 0]} \cup {[fault |-> FALSE, byte |-> g] : g \in Garbage}

\* the outcome used where no read leaves the object
NoUB == [fault |-> FALSE, byte |-> 0]

-----------------------------------------------------------------------------
(* memory *)

\* the bytes p .. p+w-1 (0-based) lie inside the allocated object mem
InObject(mem, p, w) == p >= 0 /\ p + w <= Len(mem)

\* *(*byte)(p): the byte at address p, garbage outside the object
LoadByte(mem, p, ub) == IF InObject(mem, p, 1) THEN mem[p + 1] ELSE ub.byte

\* readUnaligned64: q[0] | q[1]<<8 | ... | q[7]<<56
readUnaligned64(mem, p, ub) ==
  <<LoadByte(mem, p, ub), LoadByte(mem, p + 1, ub), LoadByte(mem, p + 2, ub),
    LoadByte(mem, p + 3, ub), LoadByte(mem, p + 4, ub), LoadByte(mem, p + 5, ub),
    LoadByte(mem, p + 6, ub), LoadByte(mem, p + 7, ub)>>

\* uint64(readUnaligned32(p)): q[0] | q[1]<<8 | q[2]<<16 | q[3]<<24, zero-extended
readUnaligned32(mem, p, ub) ==
  <<LoadByte(mem, p, ub), LoadByte(mem, p + 1, ub), LoadByte(mem, p + 2, ub),
    LoadByte(mem, p + 3, ub), 0, 0, 0, 0>>

\* uint64(*(*byte)(p))
readByte(mem, p, ub) == <<LoadByte(mem, p, ub), 0, 0, 0, 0, 0, 0, 0>>

\* string(d): a fresh copy of the n bytes of buf from offset off
StringOf(buf, off, n) == [i \in 1..n |-> buf[off + i]]

\* binary.LittleEndian.Uint64(b[off:])
LittleEndianUint64(buf, off) ==
  <<buf[off + 1], buf[off + 2], buf[off + 3], buf[off + 4],
    buf[off + 5], buf[off + 6], buf[off + 7], buf[off + 8]>>

\* the log entry of a read of w bytes at address p
Rd(p, w) == [at |-> p, width |-> w]

-----------------------------------------------------------------------------
(* state *)

VARIABLES
  data,    \* the caller's byte buffer, shared by all calls
  build,   \* which of the two builds of the package is running
  call     \* call[t]: the stack frame of thread t's current (or last) call

vars == <<data, build, call>>

\* the frame of a thread that has not called yet
IdleFrame ==
  [pc |-> "idle", entry |-> "none", impl |-> "none",
   obj |-> "data", str |-> <<>>, base |-> 0, p |-> 0,
   seed |-> Zero64, startingLength |-> 0, dlen |-> 0,
   currentState |-> Zero64, duplicatedState |-> Zero64,
   a |-> Zero64, b |-> Zero64, result |-> Zero64,
   reads |-> <<>>, bulkIters |-> 0, mediumIters |-> 0, folds |-> 0]

\* the object a frame's pointer points into
ObjectOf(f, buf) == IF f.obj = "data" THEN buf ELSE f.str

\* a step that reads outside the object faults when the platform says so
Guarded(f, mem, ub, rds, nf) ==
  IF ub.fault /\ \E i \in 1..Len(rds) : ~InObject(mem, rds[i].at, rds[i].width)
  THEN [f EXCEPT !.pc = "fault"]
  ELSE [nf EXCEPT !.reads = f.reads \o rds]


\* the reads of the step from frame f to frame g all stay inside the object
StaysInObject(f, g, mem) ==
  \A i \in (Len(f.reads) + 1)..Len(g.reads) :
    InObject(mem, g.reads[i].at, g.reads[i].width)

-----------------------------------------------------------------------------
(* circle64f of the build for Go 1.17 and newer: the general path *)

\* prologue: startingLength, currentState and, for dlen > 64, duplicatedState
circle64fEnter(entry, obj, str, base, seed, dlen) ==
  [pc |-> IF dlen > 64 THEN "bulk" ELSE "medium",
   entry |-> entry, impl |-> "circle64f",
   obj |-> obj, str |-> str, base |-> base, p |-> base,
   seed |-> seed, startingLength |-> dlen, dlen |-> dlen,
   currentState |-> XOR(seed, pi0),
   duplicatedState |-> IF dlen > 64 THEN XOR(seed, pi0) ELSE Zero64,
   a |-> Zero64, b |-> Zero64, result |-> Zero64,
   reads |-> <<>>, bulkIters |-> 0, mediumIters |-> 0, folds |-> 0]

\* circle64fBulk with currentState = cs0 assigned before cs1 is computed
circle64fBulkChained(f, mem, ub) ==
  LET p == f.p
      a == readUnaligned64(mem, p, ub)
      b == readUnaligned64(mem, p + 8, ub)
      c == readUnaligned64(mem, p + 16, ub)
      d == readUnaligned64(mem, p + 24, ub)
      e == readUnaligned64(mem, p + 32, ub)
      ff == readUnaligned64(mem, p + 40, ub)
      g == readUnaligned64(mem, p + 48, ub)
      h == readUnaligned64(mem, p + 56, ub)
      cs0 == mix64(XOR(a, pi1), XOR(b, f.currentState))
      cs1 == mix64(XOR(c, pi2), XOR(d, cs0))
      ds0 == mix64(XOR(e, pi3), XOR(ff, f.duplicatedState))
      ds1 == mix64(XOR(g, pi4), XOR(h, f.duplicatedState))
      rds == <<Rd(p, 8), Rd(p + 8, 8), Rd(p + 16, 8), Rd(p + 24, 8),
               Rd(p + 32, 8), Rd(p + 40, 8), Rd(p + 48, 8), Rd(p + 56, 8)>>
  IN  Guarded(f, mem, ub, rds,
        [f EXCEPT !.currentState = XOR(cs0, cs1),
                  !.duplicatedState = XOR(ds0, ds1),
                  !.p = p + 64,
                  !.dlen = f.dlen - 64,
                  !.bulkIters = @ + 1])

\* circle64fBulk with ds0 mixed with currentState instead of duplicatedState
circle64fBulkCrossedLanes(f, mem, ub) ==
  LET p == f.p
      a == readUnaligned64(mem, p, ub)
      b == readUnaligned64(mem, p + 8, ub)
      c == readUnaligned64(mem, p + 16, ub)
      d == readUnaligned64(mem, p + 24, ub)
      e == readUnaligned64(mem, p + 32, ub)
      ff == readUnaligned64(mem, p + 40, ub)
      g == readUnaligned64(mem, p + 48, ub)
      h == readUnaligned64(mem, p + 56, ub)
      cs0 == mix64(XOR(a, pi1), XOR(b, f.currentState))
      cs1 == mix64(XOR(c, pi2), XOR(d, f.currentState))
      ds0 == mix64(XOR(e, pi3), XOR(ff, f.currentState))
      ds1 == mix64(XOR(g, pi4), XOR(h, f.duplicatedState))
      rds == <<Rd(p, 8), Rd(p + 8, 8), Rd(p + 16, 8), Rd(p + 24, 8),
               Rd(p + 32, 8), Rd(p + 40, 8), Rd(p + 48, 8), Rd(p + 56, 8)>>
  IN  Guarded(f, mem, ub, rds,
        [f EXCEPT !.currentState = XOR(cs0, cs1),
                  !.duplicatedState = XOR(ds0, ds1),
                  !.p = p + 64,
                  !.dlen = f.dlen - 64,
                  !.bulkIters = @ + 1])

\* one iteration of the 64-byte loop
circle64fBulk(f, mem, ub) ==
  LET p == f.p
      a == readUnaligned64(mem, p, ub)
      b == readUnaligned64(mem, p + 8, ub)
      c == readUnaligned64(mem, p + 16, ub)
      d == readUnaligned64(mem, p + 24, ub)
      e == readUnaligned64(mem, p + 32, ub)
      ff == readUnaligned64(mem, p + 40, ub)
      g == readUnaligned64(mem, p + 48, ub)
      h == readUnaligned64(mem, p + 56, ub)
      cs0 == mix64(XOR(a, pi1), XOR(b, f.currentState))
      cs1 == mix64(XOR(c, pi2), XOR(d, f.currentState))
      ds0 == mix64(XOR(e, pi3), XOR(ff, f.duplicatedState))
      ds1 == mix64(XOR(g, pi4), XOR(h, f.duplicatedState))
      rds == <<Rd(p, 8), Rd(p + 8, 8), Rd(p + 16, 8), Rd(p + 24, 8),
               Rd(p + 32, 8), Rd(p + 40, 8), Rd(p + 48, 8), Rd(p + 56, 8)>>
  IN  Guarded(f, mem, ub, rds,
        [f EXCEPT !.currentState = XOR(cs0, cs1),
                  !.duplicatedState = XOR(ds0, ds1),
                  !.p = p + 64,
                  !.dlen = f.dlen - 64,
                  !.bulkIters = @ + 1])

\* circle64fFold with | where the code has ^
circle64fFoldOr(f) ==
  [f EXCEPT !.currentState = OR(f.currentState, f.duplicatedState),
            !.folds = @ + 1,
            !.pc = "medium"]

\* after the 64-byte loop: currentState = currentState ^ duplicatedState
circle64fFold(f) ==
  [f EXCEPT !.currentState = XOR(f.currentState, f.duplicatedState),
            !.folds = @ + 1,
            !.pc = "medium"]

\* circle64fMedium without dlen -= 16
circle64fMediumNoDecrement(f, mem, ub) ==
  LET p == f.p
      a == readUnaligned64(mem, p, ub)
      b == readUnaligned64(mem, p + 8, ub)
  IN  Guarded(f, mem, ub, <<Rd(p, 8), Rd(p + 8, 8)>>,
        [f EXCEPT !.currentState = mix64(XOR(a, pi1), XOR(b, f.currentState)),
                  !.p = p + 16,
                  !.mediumIters = @ + 1])

\* circle64fMedium loading its words from the 8-byte aligned address below p
circle64fMediumAligned(f, mem, ub) ==
  LET p == f.p
      q == p - (p % 8)
      a == readUnaligned64(mem, q, ub)
      b == readUnaligned64(mem, q + 8, ub)
  IN  Guarded(f, mem, ub, <<Rd(q, 8), Rd(q + 8, 8)>>,
        [f EXCEPT !.currentState = mix64(XOR(a, pi1), XOR(b, f.currentState)),
                  !.p = p + 16,
                  !.dlen = f.dlen - 16,
                  !.mediumIters = @ + 1])

\* one iteration of the 16-byte loop
circle64fMedium(f, mem, ub) ==
  LET p == f.p
      a == readUnaligned64(mem, p, ub)
      b == readUnaligned64(mem, p + 8, ub)
  IN  Guarded(f, mem, ub, <<Rd(p, 8), Rd(p + 8, 8)>>,
        [f EXCEPT !.currentState = mix64(XOR(a, pi1), XOR(b, f.currentState)),
                  !.p = p + 16,
                  !.dlen = f.dlen - 16,
                  !.mediumIters = @ + 1])

\* circle64fTail reading b of a 9..16-byte tail at p+8 instead of p+dlen-8
circle64fTailSecondWord(f, mem, ub) ==
  LET p == f.p
      dlen == f.dlen
  IN  IF dlen > 8 THEN
        Guarded(f, mem, ub, <<Rd(p, 8), Rd(p + 8, 8)>>,
          [f EXCEPT !.a = readUnaligned64(mem, p, ub),
                    !.b = readUnaligned64(mem, p + 8, ub),
                    !.pc = "final"])
      ELSE IF dlen > 3 THEN
        Guarded(f, mem, ub, <<Rd(p, 4), Rd(p + (dlen - 4), 4)>>,
          [f EXCEPT !.a = readUnaligned32(mem, p, ub),
                    !.b = readUnaligned32(mem, p + (dlen - 4), ub),
                    !.pc = "final"])
      ELSE IF dlen > 0 THEN
        Guarded(f, mem, ub,
          <<Rd(p, 1), Rd(p + (dlen \div 2), 1), Rd(p + (dlen - 1), 1)>>,
          [f EXCEPT !.a = OR(OR(ShlBytes(readByte(mem, p, ub), 2),
                                ShlBytes(readByte(mem, p + (dlen \div 2), ub), 1)),
                             readByte(mem, p + (dlen - 1), ub)),
                    !.b = Zero64,
                    !.pc = "final"])
      ELSE
        [f EXCEPT !.a = Zero64, !.b = Zero64, !.pc = "final"]

\* circle64fTail with case dlen > 7 where the code has dlen > 8
circle64fTailEightAsWord(f, mem, ub) ==
  LET p == f.p
      dlen == f.dlen
  IN  IF dlen > 7 THEN
        Guarded(f, mem, ub, <<Rd(p, 8), Rd(p + (dlen - 8), 8)>>,
          [f EXCEPT !.a = readUnaligned64(mem, p, ub),
                    !.b = readUnaligned64(mem, p + (dlen - 8), ub),
                    !.pc = "final"])
      ELSE IF dlen > 3 THEN
        Guarded(f, mem, ub, <<Rd(p, 4), Rd(p + (dlen - 4), 4)>>,
          [f EXCEPT !.a = readUnaligned32(mem, p, ub),
                    !.b = readUnaligned32(mem, p + (dlen - 4), ub),
                    !.pc = "final"])
      ELSE IF dlen > 0 THEN
        Guarded(f, mem, ub,
          <<Rd(p, 1), Rd(p + (dlen \div 2), 1), Rd(p + (dlen - 1), 1)>>,
          [f EXCEPT !.a = OR(OR(ShlBytes(readByte(mem, p, ub), 2),
                                ShlBytes(readByte(mem, p + (dlen \div 2), ub), 1)),
                             readByte(mem, p + (dlen - 1), ub)),
                    !.b = Zero64,
                    !.pc = "final"])
      ELSE
        [f EXCEPT !.a = Zero64, !.b = Zero64, !.pc = "final"]

\* circle64fTail taking a 9..16-byte tail from the last 16 bytes of the input
circle64fTailLastSixteen(f, mem, ub) ==
  LET p == f.p
      dlen == f.dlen
  IN  IF dlen > 8 THEN
        Guarded(f, mem, ub, <<Rd(p + (dlen - 16), 8), Rd(p + (dlen - 8), 8)>>,
          [f EXCEPT !.a = readUnaligned64(mem, p + (dlen - 16), ub),
                    !.b = readUnaligned64(mem, p + (dlen - 8), ub),
                    !.pc = "final"])
      ELSE IF dlen > 3 THEN
        Guarded(f, mem, ub, <<Rd(p, 4), Rd(p + (dlen - 4), 4)>>,
          [f EXCEPT !.a = readUnaligned32(mem, p, ub),
                    !.b = readUnaligned32(mem, p + (dlen - 4), ub),
                    !.pc = "final"])
      ELSE IF dlen > 0 THEN
        Guarded(f, mem, ub,
          <<Rd(p, 1), Rd(p + (dlen \div 2), 1), Rd(p + (dlen - 1), 1)>>,
          [f EXCEPT !.a = OR(OR(ShlBytes(readByte(mem, p, ub), 2),
                                ShlBytes(readByte(mem, p + (dlen \div 2), ub), 1)),
                             readByte(mem, p + (dlen - 1), ub)),
                    !.b = Zero64,
                    !.pc = "final"])
      ELSE
        [f EXCEPT !.a = Zero64, !.b = Zero64, !.pc = "final"]

\* the switch on the remaining length: the tail words a and b
circle64fTail(f, mem, ub) ==
  LET p == f.p
      dlen == f.dlen
  IN  IF dlen > 8 THEN
        Guarded(f, mem, ub, <<Rd(p, 8), Rd(p + (dlen - 8), 8)>>,
          [f EXCEPT !.a = readUnaligned64(mem, p, ub),
                    !.b = readUnaligned64(mem, p + (dlen - 8), ub),
                    !.pc = "final"])
      ELSE IF dlen > 3 THEN
        Guarded(f, mem, ub, <<Rd(p, 4), Rd(p + (dlen - 4), 4)>>,
          [f EXCEPT !.a = readUnaligned32(mem, p, ub),
                    !.b = readUnaligned32(mem, p + (dlen - 4), ub),
                    !.pc = "final"])
      ELSE IF dlen > 0 THEN
        Guarded(f, mem, ub,
          <<Rd(p, 1), Rd(p + (dlen \div 2), 1), Rd(p + (dlen - 1), 1)>>,
          [f EXCEPT !.a = OR(OR(ShlBytes(readByte(mem, p, ub), 2),
                                ShlBytes(readByte(mem, p + (dlen \div 2), ub), 1)),
                             readByte(mem, p + (dlen - 1), ub)),
                    !.b = Zero64,
                    !.pc = "final"])
      ELSE
        [f EXCEPT !.a = Zero64, !.b = Zero64, !.pc = "final"]

\* circle64fFinal with z computed from the remaining length dlen
circle64fFinalRemainingLength(f) ==
  LET w == mix64(XOR(f.a, pi1), XOR(f.b, f.currentState))
      z == XOR(pi4, ToWord(f.dlen))
  IN  [f EXCEPT !.result = mix64(w, z), !.pc = "done"]

\* w := mix64(a^pi1, b^currentState); z := pi4 ^ startingLength; return mix64(w, z)
circle64fFinal(f) ==
  LET w == mix64(XOR(f.a, pi1), XOR(f.b, f.currentState))
      z == XOR(pi4, ToWord(f.startingLength))
  IN  [f EXCEPT !.result = mix64(w, z), !.pc = "done"]

-----------------------------------------------------------------------------
(* circle64f of the build for Go older than 1.17: the unoptimized          *)
(* reference implementation                                                *)

\* prologue: startingLength, currentState and, for dlen > 64, duplicatedState
circle64fRefEnter(entry, obj, str, base, seed, dlen) ==
  [pc |-> IF dlen > 64 THEN "bulk" ELSE "medium",
   entry |-> entry, impl |-> "circle64fRef",
   obj |-> obj, str |-> str, base |-> base, p |-> base,
   seed |-> seed, startingLength |-> dlen, dlen |-> dlen,
   currentState |-> XOR(seed, pi0),
   duplicatedState |-> IF dlen > 64 THEN XOR(seed, pi0) ELSE Zero64,
   a |-> Zero64, b |-> Zero64, result |-> Zero64,
   reads |-> <<>>, bulkIters |-> 0, mediumIters |-> 0, folds |-> 0]

\* circle64fRefBulk with pi1 instead of pi2 in cs1
circle64fRefBulkSameConstant(f, mem, ub) ==
  LET p == f.p
      a == readUnaligned64(mem, p, ub)
      b == readUnaligned64(mem, p + 8, ub)
      c == readUnaligned64(mem, p + 16, ub)
      d == readUnaligned64(mem, p + 24, ub)
      e == readUnaligned64(mem, p + 32, ub)
      ff == readUnaligned64(mem, p + 40, ub)
      g == readUnaligned64(mem, p + 48, ub)
      h == readUnaligned64(mem, p + 56, ub)
      cs0 == mix64(XOR(a, pi1), XOR(b, f.currentState))
      cs1 == mix64(XOR(c, pi1), XOR(d, f.currentState))
      ds0 == mix64(XOR(e, pi3), XOR(ff, f.duplicatedState))
      ds1 == mix64(XOR(g, pi4), XOR(h, f.duplicatedState))
      rds == <<Rd(p, 8), Rd(p + 8, 8), Rd(p + 16, 8), Rd(p + 24, 8),
               Rd(p + 32, 8), Rd(p + 40, 8), Rd(p + 48, 8), Rd(p + 56, 8)>>
  IN  Guarded(f, mem, ub, rds,
        [f EXCEPT !.currentState = XOR(cs0, cs1),
                  !.duplicatedState = XOR(ds0, ds1),
                  !.p = p + 64,
                  !.dlen = f.dlen - 64,
                  !.bulkIters = @ + 1])

\* one iteration of the 64-byte loop
circle64fRefBulk(f, mem, ub) ==
  LET p == f.p
      a == readUnaligned64(mem, p, ub)
      b == readUnaligned64(mem, p + 8, ub)
      c == readUnaligned64(mem, p + 16, ub)
      d == readUnaligned64(mem, p + 24, ub)
      e == readUnaligned64(mem, p + 32, ub)
      ff == readUnaligned64(mem, p + 40, ub)
      g == readUnaligned64(mem, p + 48, ub)
      h == readUnaligned64(mem, p + 56, ub)
      cs0 == mix64(XOR(a, pi1), XOR(b, f.currentState))
      cs1 == mix64(XOR(c, pi2), XOR(d, f.currentState))
      ds0 == mix64(XOR(e, pi3), XOR(ff, f.duplicatedState))
      ds1 == mix64(XOR(g, pi4), XOR(h, f.duplicatedState))
      rds == <<Rd(p, 8), Rd(p + 8, 8), Rd(p + 16, 8), Rd(p + 24, 8),
               Rd(p + 32, 8), Rd(p + 40, 8), Rd(p + 48, 8), Rd(p + 56, 8)>>
  IN  Guarded(f, mem, ub, rds,
        [f EXCEPT !.currentState = XOR(cs0, cs1),
                  !.duplicatedState = XOR(ds0, ds1),
                  !.p = p + 64,
                  !.dlen = f.dlen - 64,
                  !.bulkIters = @ + 1])

\* after the 64-byte loop: currentState = currentState ^ duplicatedState
circle64fRefFold(f) ==
  [f EXCEPT !.currentState = XOR(f.currentState, f.duplicatedState),
            !.folds = @ + 1,
            !.pc = "medium"]

\* circle64fRefMedium taking both operands from the first word of the chunk
circle64fRefMediumOneWord(f, mem, ub) ==
  LET p == f.p
      a == readUnaligned64(mem, p, ub)
      b == readUnaligned64(mem, p, ub)
  IN  Guarded(f, mem, ub, <<Rd(p, 8), Rd(p, 8)>>,
        [f EXCEPT !.currentState = mix64(XOR(a, pi1), XOR(b, f.currentState)),
                  !.p = p + 16,
                  !.dlen = f.dlen - 16,
                  !.mediumIters = @ + 1])

\* one iteration of the 16-byte loop
circle64fRefMedium(f, mem, ub) ==
  LET p == f.p
      a == readUnaligned64(mem, p, ub)
      b == readUnaligned64(mem, p + 8, ub)
  IN  Guarded(f, mem, ub, <<Rd(p, 8), Rd(p + 8, 8)>>,
        [f EXCEPT !.currentState = mix64(XOR(a, pi1), XOR(b, f.currentState)),
                  !.p = p + 16,
                  !.dlen = f.dlen - 16,
                  !.mediumIters = @ + 1])

\* circle64fRefTail with a and b of a 9..16-byte tail exchanged
circle64fRefTailSwapped(f, mem, ub) ==
  LET p == f.p
      dlen == f.dlen
  IN  IF dlen > 8 THEN
        Guarded(f, mem, ub, <<Rd(p, 8), Rd(p + (dlen - 8), 8)>>,
          [f EXCEPT !.b = readUnaligned64(mem, p, ub),
                    !.a = readUnaligned64(mem, p + (dlen - 8), ub),
                    !.pc = "final"])
      ELSE IF dlen > 3 THEN
        Guarded(f, mem, ub, <<Rd(p, 4), Rd(p + (dlen - 4), 4)>>,
          [f EXCEPT !.a = readUnaligned32(mem, p, ub),
                    !.b = readUnaligned32(mem, p + (dlen - 4), ub),
                    !.pc = "final"])
      ELSE IF dlen > 0 THEN
        Guarded(f, mem, ub,
          <<Rd(p, 1), Rd(p + (dlen \div 2), 1), Rd(p + (dlen - 1), 1)>>,
          [f EXCEPT !.a = OR(OR(ShlBytes(readByte(mem, p, ub), 2),
                                ShlBytes(readByte(mem, p + (dlen \div 2), ub), 1)),
                             readByte(mem, p + (dlen - 1), ub)),
                    !.b = Zero64,
                    !.pc = "final"])
      ELSE
        [f EXCEPT !.a = Zero64, !.b = Zero64, !.pc = "final"]

\* the switch on the remaining length: the tail words a and b
circle64fRefTail(f, mem, ub) ==
  LET p == f.p
      dlen == f.dlen
  IN  IF dlen > 8 THEN
        Guarded(f, mem, ub, <<Rd(p, 8), Rd(p + (dlen - 8), 8)>>,
          [f EXCEPT !.a = readUnaligned64(mem, p, ub),
                    !.b = readUnaligned64(mem, p + (dlen - 8), ub),
                    !.pc = "final"])
      ELSE IF dlen > 3 THEN
        Guarded(f, mem, ub, <<Rd(p, 4), Rd(p + (dlen - 4), 4)>>,
          [f EXCEPT !.a = readUnaligned32(mem, p, ub),
                    !.b = readUnaligned32(mem, p + (dlen - 4), ub),
                    !.pc = "final"])
      ELSE IF dlen > 0 THEN
        Guarded(f, mem, ub,
          <<Rd(p, 1), Rd(p + (dlen \div 2), 1), Rd(p + (dlen - 1), 1)>>,
          [f EXCEPT !.a = OR(OR(ShlBytes(readByte(mem, p, ub), 2),
                                ShlBytes(readByte(mem, p + (dlen \div 2), ub), 1)),
                             readByte(mem, p + (dlen - 1), ub)),
                    !.b = Zero64,
                    !.pc = "final"])
      ELSE
        [f EXCEPT !.a = Zero64, !.b = Zero64, !.pc = "final"]

\* circle64fRefFinal using the same constant twice at finalization
circle64fRefFinalSameConstant(f) ==
  LET w == mix64(XOR(f.a, pi1), XOR(f.b, f.currentState))
      z == XOR(pi1, ToWord(f.startingLength))
  IN  [f EXCEPT !.result = mix64(w, z), !.pc = "done"]

\* w := mix64(a^pi1, b^currentState); z := pi4 ^ startingLength; return mix64(w, z)
circle64fRefFinal(f) ==
  LET w == mix64(XOR(f.a, pi1), XOR(f.b, f.currentState))
      z == XOR(pi4, ToWord(f.startingLength))
  IN  [f EXCEPT !.result = mix64(w, z), !.pc = "done"]

-----------------------------------------------------------------------------
(* circle64fShortInput, the path for inputs of at most 64 bytes *)

\* circle64fShortInputEnter with currentState := seed, without ^ pi0
circle64fShortInputEnterNoPi0(entry, obj, str, base, seed, dlen) ==
  [pc |-> "medium",
   entry |-> entry, impl |-> "circle64fShortInput",
   obj |-> obj, str |-> str, base |-> base, p |-> base,
   seed |-> seed, startingLength |-> dlen, dlen |-> dlen,
   currentState |-> seed,
   duplicatedState |-> Zero64,
   a |-> Zero64, b |-> Zero64, result |-> Zero64,
   reads |-> <<>>, bulkIters |-> 0, mediumIters |-> 0, folds |-> 0]

\* prologue: startingLength and currentState
circle64fShortInputEnter(entry, obj, str, base, seed, dlen) ==
  [pc |-> "medium",
   entry |-> entry, impl |-> "circle64fShortInput",
   obj |-> obj, str |-> str, base |-> base, p |-> base,
   seed |-> seed, startingLength |-> dlen, dlen |-> dlen,
   currentState |-> XOR(seed, pi0),
   duplicatedState |-> Zero64,
   a |-> Zero64, b |-> Zero64, result |-> Zero64,
   reads |-> <<>>, bulkIters |-> 0, mediumIters |-> 0, folds |-> 0]

\* circle64fShortInputMedium without p = add(p, 16)
circle64fShortInputMediumNoAdvance(f, mem, ub) ==
  LET p == f.p
      a == readUnaligned64(mem, p, ub)
      b == readUnaligned64(mem, p + 8, ub)
  IN  Guarded(f, mem, ub, <<Rd(p, 8), Rd(p + 8, 8)>>,
        [f EXCEPT !.currentState = mix64(XOR(a, pi1), XOR(b, f.currentState)),
                  !.dlen = f.dlen - 16,
                  !.mediumIters = @ + 1])

\* one iteration of the 16-byte loop
circle64fShortInputMedium(f, mem, ub) ==
  LET p == f.p
      a == readUnaligned64(mem, p, ub)
      b == readUnaligned64(mem, p + 8, ub)
  IN  Guarded(f, mem, ub, <<Rd(p, 8), Rd(p + 8, 8)>>,
        [f EXCEPT !.currentState = mix64(XOR(a, pi1), XOR(b, f.currentState)),
                  !.p = p + 16,
                  !.dlen = f.dlen - 16,
                  !.mediumIters = @ + 1])

\* circle64fShortInputTail with case dlen > 4 where the code has dlen > 3
circle64fShortInputTailFourAsBytes(f, mem, ub) ==
  LET p == f.p
      dlen == f.dlen
  IN  IF dlen > 8 THEN
        Guarded(f, mem, ub, <<Rd(p, 8), Rd(p + (dlen - 8), 8)>>,
          [f EXCEPT !.a = readUnaligned64(mem, p, ub),
                    !.b = readUnaligned64(mem, p + (dlen - 8), ub),
                    !.pc = "final"])
      ELSE IF dlen > 4 THEN
        Guarded(f, mem, ub, <<Rd(p, 4), Rd(p + (dlen - 4), 4)>>,
          [f EXCEPT !.a = readUnaligned32(mem, p, ub),
                    !.b = readUnaligned32(mem, p + (dlen - 4), ub),
                    !.pc = "final"])
      ELSE IF dlen > 0 THEN
        Guarded(f, mem, ub,
          <<Rd(p, 1), Rd(p + (dlen \div 2), 1), Rd(p + (dlen - 1), 1)>>,
          [f EXCEPT !.a = OR(OR(ShlBytes(readByte(mem, p, ub), 2),
                                ShlBytes(readByte(mem, p + (dlen \div 2), ub), 1)),
                             readByte(mem, p + (dlen - 1), ub)),
                    !.b = Zero64,
                    !.pc = "final"])
      ELSE
        [f EXCEPT !.a = Zero64, !.b = Zero64, !.pc = "final"]

\* circle64fShortInputTail reading the last byte of a 1..3-byte tail at
\* p+dlen instead of p+dlen-1
circle64fShortInputTailPastEnd(f, mem, ub) ==
  LET p == f.p
      dlen == f.dlen
  IN  IF dlen > 8 THEN
        Guarded(f, mem, ub, <<Rd(p, 8), Rd(p + (dlen - 8), 8)>>,
          [f EXCEPT !.a = readUnaligned64(mem, p, ub),
                    !.b = readUnaligned64(mem, p + (dlen - 8), ub),
                    !.pc = "final"])
      ELSE IF dlen > 3 THEN
        Guarded(f, mem, ub, <<Rd(p, 4), Rd(p + (dlen - 4), 4)>>,
          [f EXCEPT !.a = readUnaligned32(mem, p, ub),
                    !.b = readUnaligned32(mem, p + (dlen - 4), ub),
                    !.pc = "final"])
      ELSE IF dlen > 0 THEN
        Guarded(f, mem, ub,
          <<Rd(p, 1), Rd(p + (dlen \div 2), 1), Rd(p + dlen, 1)>>,
          [f EXCEPT !.a = OR(OR(ShlBytes(readByte(mem, p, ub), 2),
                                ShlBytes(readByte(mem, p + (dlen \div 2), ub), 1)),
                             readByte(mem, p + dlen, ub)),
                    !.b = Zero64,
                    !.pc = "final"])
      ELSE
        [f EXCEPT !.a = Zero64, !.b = Zero64, !.pc = "final"]

\* circle64fShortInputTail with the middle byte at (dlen-1)/2 instead of dlen/2
circle64fShortInputTailMiddleDown(f, mem, ub) ==
  LET p == f.p
      dlen == f.dlen
  IN  IF dlen > 8 THEN
        Guarded(f, mem, ub, <<Rd(p, 8), Rd(p + (dlen - 8), 8)>>,
          [f EXCEPT !.a = readUnaligned64(mem, p, ub),
                    !.b = readUnaligned64(mem, p + (dlen - 8), ub),
                    !.pc = "final"])
      ELSE IF dlen > 3 THEN
        Guarded(f, mem, ub, <<Rd(p, 4), Rd(p + (dlen - 4), 4)>>,
          [f EXCEPT !.a = readUnaligned32(mem, p, ub),
                    !.b = readUnaligned32(mem, p + (dlen - 4), ub),
                    !.pc = "final"])
      ELSE IF dlen > 0 THEN
        Guarded(f, mem, ub,
          <<Rd(p, 1), Rd(p + ((dlen - 1) \div 2), 1), Rd(p + (dlen - 1), 1)>>,
          [f EXCEPT !.a = OR(OR(ShlBytes(readByte(mem, p, ub), 2),
                                ShlBytes(readByte(mem, p + ((dlen - 1) \div 2), ub), 1)),
                             readByte(mem, p + (dlen - 1), ub)),
                    !.b = Zero64,
                    !.pc = "final"])
      ELSE
        [f EXCEPT !.a = Zero64, !.b = Zero64, !.pc = "final"]

\* the switch on the remaining length
circle64fShortInputTail(f, mem, ub) ==
  LET p == f.p
      dlen == f.dlen
  IN  IF dlen > 8 THEN
        Guarded(f, mem, ub, <<Rd(p, 8), Rd(p + (dlen - 8), 8)>>,
          [f EXCEPT !.a = readUnaligned64(mem, p, ub),
                    !.b = readUnaligned64(mem, p + (dlen - 8), ub),
                    !.pc = "final"])
      ELSE IF dlen > 3 THEN
        Guarded(f, mem, ub, <<Rd(p, 4), Rd(p + (dlen - 4), 4)>>,
          [f EXCEPT !.a = readUnaligned32(mem, p, ub),
                    !.b = readUnaligned32(mem, p + (dlen - 4), ub),
                    !.pc = "final"])
      ELSE IF dlen > 0 THEN
        Guarded(f, mem, ub,
          <<Rd(p, 1), Rd(p + (dlen \div 2), 1), Rd(p + (dlen - 1), 1)>>,
          [f EXCEPT !.a = OR(OR(ShlBytes(readByte(mem, p, ub), 2),
                                ShlBytes(readByte(mem, p + (dlen \div 2), ub), 1)),
                             readByte(mem, p + (dlen - 1), ub)),
                    !.b = Zero64,
                    !.pc = "final"])
      ELSE
        [f EXCEPT !.a = Zero64, !.b = Zero64, !.pc = "final"]

\* circle64fShortInputFinal shielding w against a zero operand by folding the
\* operands back into the product
circle64fShortInputFinalShielded(f) ==
  LET x == XOR(f.a, pi1)
      y == XOR(f.b, f.currentState)
      w == XOR(mix64(x, y), XOR(x, y))
      z == XOR(pi4, ToWord(f.startingLength))
  IN  [f EXCEPT !.result = mix64(w, z), !.pc = "done"]

circle64fShortInputFinal(f) ==
  LET w == mix64(XOR(f.a, pi1), XOR(f.b, f.currentState))
      z == XOR(pi4, ToWord(f.startingLength))
  IN  [f EXCEPT !.result = mix64(w, z), !.pc = "done"]

-----------------------------------------------------------------------------
(* circle64fUint64x2, the digest of two words *)

\* const dataLen = uint64(16)
dataLen == 16

\* the frame on entry; base remembers where the caller took a and b from
circle64fUint64x2Enter(a, b, seed, base) ==
  [pc |-> "x2",
   entry |-> "Hash64Uint64x2", impl |-> "circle64fUint64x2",
   obj |-> "data", str |-> <<>>, base |-> base, p |-> base,
   seed |-> seed, startingLength |-> 0, dlen |-> 0,
   currentState |-> Zero64, duplicatedState |-> Zero64,
   a |-> a, b |-> b, result |-> Zero64,
   reads |-> <<>>, bulkIters |-> 0, mediumIters |-> 0, folds |-> 0]

\* circle64fUint64x2 with a and b exchanged in the first mix64
circle64fUint64x2Swapped(f) ==
  LET currentState == XOR(f.seed, pi0)
      w == mix64(XOR(f.b, pi1), XOR(f.a, currentState))
      z == XOR(pi4, ToWord(dataLen))
  IN  [f EXCEPT !.currentState = currentState, !.result = mix64(w, z), !.pc = "done"]

\* circle64fUint64x2 with the length counted in words, not bytes
circle64fUint64x2LengthInWords(f) ==
  LET currentState == XOR(f.seed, pi0)
      w == mix64(XOR(f.a, pi1), XOR(f.b, currentState))
      z == XOR(pi4, ToWord(dataLen \div 8))
  IN  [f EXCEPT !.currentState = currentState, !.result = mix64(w, z), !.pc = "done"]

circle64fUint64x2(f) ==
  LET currentState == XOR(f.seed, pi0)
      w == mix64(XOR(f.a, pi1), XOR(f.b, currentState))
      z == XOR(pi4, ToWord(dataLen))
  IN  [f EXCEPT !.currentState = currentState, !.result = mix64(w, z), !.pc = "done"]

-----------------------------------------------------------------------------
(* the exported functions, per build *)

\* Hash64 with the dispatch test len(b) >= 64 where the code has len(b) > 64
Hash64DispatchAt64(bld, base, n, seed) ==
  IF bld = "go1.17" THEN
    IF n >= 64 THEN circle64fEnter("Hash64", "data", <<>>, base, seed, n)
    ELSE circle64fShortInputEnter("Hash64", "data", <<>>, base, seed, n)
  ELSE circle64fRefEnter("Hash64", "data", <<>>, base, seed, n)

\* Hash64(b, seed) with b = data[base : base+n]
Hash64(bld, base, n, seed) ==
  IF bld = "go1.17" THEN
    IF n > 64 THEN circle64fEnter("Hash64", "data", <<>>, base, seed, n)
    ELSE circle64fShortInputEnter("Hash64", "data", <<>>, base, seed, n)
  ELSE circle64fRefEnter("Hash64", "data", <<>>, base, seed, n)

\* Hash64String that hands every string to circle64fShortInput
Hash64StringNoLengthCheck(bld, s, seed) ==
  IF bld = "go1.17" THEN
    circle64fShortInputEnter("Hash64String", "str", s, 0, seed, Len(s))
  ELSE circle64fRefEnter("Hash64String", "str", s, 0, seed, Len(s))

\* Hash64String(s, seed)
Hash64String(bld, s, seed) ==
  IF bld = "go1.17" THEN
    IF Len(s) > 64 THEN circle64fEnter("Hash64String", "str", s, 0, seed, Len(s))
    ELSE circle64fShortInputEnter("Hash64String", "str", s, 0, seed, Len(s))
  ELSE circle64fRefEnter("Hash64String", "str", s, 0, seed, Len(s))

\* Hash64Uint64x2(a, b, seed)
Hash64Uint64x2(bld, a, b, seed, base) == circle64fUint64x2Enter(a, b, seed, base)

\* the next step of a frame, by its position in the code
NextFrame(f, mem, ub) ==
  CASE f.impl = "circle64f" /\ f.pc = "bulk" /\ f.dlen > 64 -> circle64fBulk(f, mem, ub)
    [] f.impl = "circle64f" /\ f.pc = "bulk" /\ f.dlen <= 64 -> circle64fFold(f)
    [] f.impl = "circle64f" /\ f.pc = "medium" /\ f.dlen > 16 -> circle64fMedium(f, mem, ub)
    [] f.impl = "circle64f" /\ f.pc = "medium" /\ f.dlen <= 16 -> circle64fTail(f, mem, ub)
    [] f.impl = "circle64f" /\ f.pc = "final" -> circle64fFinal(f)
    [] f.impl = "circle64fRef" /\ f.pc = "bulk" /\ f.dlen > 64 -> circle64fRefBulk(f, mem, ub)
    [] f.impl = "circle64fRef" /\ f.pc = "bulk" /\ f.dlen <= 64 -> circle64fRefFold(f)
    [] f.impl = "circle64fRef" /\ f.pc = "medium" /\ f.dlen > 16 -> circle64fRefMedium(f, mem, ub)
    [] f.impl = "circle64fRef" /\ f.pc = "medium" /\ f.dlen <= 16 -> circle64fRefTail(f, mem, ub)
    [] f.impl = "circle64fRef" /\ f.pc = "final" -> circle64fRefFinal(f)
    [] f.impl = "circle64fShortInput" /\ f.pc = "medium" /\ f.dlen > 16 ->
         circle64fShortInputMedium(f, mem, ub)
    [] f.impl = "circle64fShortInput" /\ f.pc = "medium" /\ f.dlen <= 16 ->
         circle64fShortInputTail(f, mem, ub)
    [] f.impl = "circle64fShortInput" /\ f.pc = "final" -> circle64fShortInputFinal(f)
    [] f.impl = "circle64fUint64x2" /\ f.pc = "x2" -> circle64fUint64x2(f)
    [] OTHER -> f

RECURSIVE Run(_, _)
\* the frame a call ends in when it runs alone on the buffer buf
Run(f, buf) ==
  IF f.pc \in {"idle", "done", "fault"} THEN f
  ELSE Run(NextFrame(f, ObjectOf(f, buf), NoUB), buf)

-----------------------------------------------------------------------------
(* actions *)

Init ==
  /\ data \in Buffers
  /\ build \in Builds
  /\ call = [t \in Threads |-> IdleFrame]

\* the single caller of the sequential specification: the first thread
Caller == CHOOSE t \in Threads : \A u \in Threads : t <= u

\* a thread may call when it is not inside a call
CanCall(t) == call[t].pc = "idle"

\* digest := Hash64(data[off:off+n], seed)
CallHash64(t) ==
  /\ CanCall(t)
  /\ \E off \in 0..MaxOff, n \in 0..MaxLen, seed \in Seeds :
       call' = [call EXCEPT ![t] = Hash64(build, off, n, seed)]
  /\ UNCHANGED <<data, build>>

\* digest := Hash64String(string(data[off:off+n]), seed)
CallHash64String(t) ==
  /\ CanCall(t)
  /\ \E off \in 0..MaxOff, n \in 0..MaxLen, seed \in Seeds :
       call' = [call EXCEPT ![t] = Hash64String(build, StringOf(data, off, n), seed)]
  /\ UNCHANGED <<data, build>>

\* digest := Hash64Uint64x2(a, b, seed) with a, b decoded from data[off:off+16]
CallHash64Uint64x2(t) ==
  /\ CanCall(t)
  /\ \E off \in 0..MaxOff, seed \in Seeds :
       call' = [call EXCEPT ![t] =
                  Hash64Uint64x2(build, LittleEndianUint64(data, off),
                                 LittleEndianUint64(data, off + 8), seed, off)]
  /\ UNCHANGED <<data, build>>

\* thread t is inside impl at position pc
At(t, impl, pc) == call[t].impl = impl /\ call[t].pc = pc

Mem(t) == ObjectOf(call[t], data)

\* thread t is inside either build's circle64f at position pc
AtGeneral(t, pc) == call[t].impl \in {"circle64f", "circle64fRef"} /\ call[t].pc = pc

IsRef(t) == call[t].impl = "circle64fRef"

\* BulkStep with the loop test dlen >= 64 where the code has dlen > 64
BulkStepAtLeast64(t) ==
  /\ AtGeneral(t, "bulk") /\ call[t].dlen >= 64
  /\ LET op(ub) == IF IsRef(t) THEN circle64fRefBulk(call[t], Mem(t), ub)
                   ELSE circle64fBulk(call[t], Mem(t), ub)
         g == op(NoUB)
     IN  \E h \in IF StaysInObject(call[t], g, Mem(t)) THEN {g}
                  ELSE {op(ub) : ub \in UB} :
           call' = [call EXCEPT ![t] = h]
  /\ UNCHANGED <<data, build>>

\* one iteration of the loop for ; dlen > 64; dlen -= 64
BulkStep(t) ==
  /\ AtGeneral(t, "bulk") /\ call[t].dlen > 64
  /\ LET op(ub) == IF IsRef(t) THEN circle64fRefBulk(call[t], Mem(t), ub)
                   ELSE circle64fBulk(call[t], Mem(t), ub)
         g == op(NoUB)
     IN  \E h \in IF StaysInObject(call[t], g, Mem(t)) THEN {g}
                  ELSE {op(ub) : ub \in UB} :
           call' = [call EXCEPT ![t] = h]
  /\ UNCHANGED <<data, build>>

\* FoldStep with duplicatedState kept in one package-level variable, the
\* one of the first thread, instead of a local of each call
FoldStepSharedLane(t) ==
  /\ AtGeneral(t, "bulk") /\ call[t].dlen <= 64
  /\ LET f == [call[t] EXCEPT !.duplicatedState = call[Caller].duplicatedState]
     IN  call' = [call EXCEPT ![t] = IF IsRef(t) THEN circle64fRefFold(f)
                                     ELSE circle64fFold(f)]
  /\ UNCHANGED <<data, build>>

FoldStep(t) ==
  /\ AtGeneral(t, "bulk") /\ call[t].dlen <= 64
  /\ call' = [call EXCEPT ![t] = IF IsRef(t) THEN circle64fRefFold(call[t])
                                ELSE circle64fFold(call[t])]
  /\ UNCHANGED <<data, build>>

\* MediumStep that zeroes the first byte of the chunk it has absorbed
MediumStepScrub(t) ==
  /\ AtGeneral(t, "medium") /\ call[t].dlen > 16
  /\ LET op(ub) == IF IsRef(t) THEN circle64fRefMedium(call[t], Mem(t), ub)
                   ELSE circle64fMedium(call[t], Mem(t), ub)
         g == op(NoUB)
     IN  \E h \in IF StaysInObject(call[t], g, Mem(t)) THEN {g}
                  ELSE {op(ub) : ub \in UB} :
           call' = [call EXCEPT ![t] = h]
  /\ data' = IF call[t].obj = "data" THEN [data EXCEPT ![call[t].p + 1] = 0] ELSE data
  /\ UNCHANGED build

\* MediumStep with the loop test dlen >= 16 where the code has dlen > 16
MediumStepAtLeast16(t) ==
  /\ AtGeneral(t, "medium") /\ call[t].dlen >= 16
  /\ LET op(ub) == IF IsRef(t) THEN circle64fRefMedium(call[t], Mem(t), ub)
                   ELSE circle64fMedium(call[t], Mem(t), ub)
         g == op(NoUB)
     IN  \E h \in IF StaysInObject(call[t], g, Mem(t)) THEN {g}
                  ELSE {op(ub) : ub \in UB} :
           call' = [call EXCEPT ![t] = h]
  /\ UNCHANGED <<data, build>>

\* one iteration of the loop for ; dlen > 16; dlen -= 16
MediumStep(t) ==
  /\ AtGeneral(t, "medium") /\ call[t].dlen > 16
  /\ LET op(ub) == IF IsRef(t) THEN circle64fRefMedium(call[t], Mem(t), ub)
                   ELSE circle64fMedium(call[t], Mem(t), ub)
         g == op(NoUB)
     IN  \E h \in IF StaysInObject(call[t], g, Mem(t)) THEN {g}
                  ELSE {op(ub) : ub \in UB} :
           call' = [call EXCEPT ![t] = h]
  /\ UNCHANGED <<data, build>>

TailStep(t) ==
  /\ AtGeneral(t, "medium") /\ call[t].dlen <= 16
  /\ LET op(ub) == IF IsRef(t) THEN circle64fRefTail(call[t], Mem(t), ub)
                   ELSE circle64fTail(call[t], Mem(t), ub)
         g == op(NoUB)
     IN  \E h \in IF StaysInObject(call[t], g, Mem(t)) THEN {g}
                  ELSE {op(ub) : ub \in UB} :
           call' = [call EXCEPT ![t] = h]
  /\ UNCHANGED <<data, build>>

FinalStep(t) ==
  /\ AtGeneral(t, "final")
  /\ call' = [call EXCEPT ![t] = IF IsRef(t) THEN circle64fRefFinal(call[t])
                                ELSE circle64fFinal(call[t])]
  /\ UNCHANGED <<data, build>>

ShortMediumStep(t) ==
  /\ At(t, "circle64fShortInput", "medium") /\ call[t].dlen > 16
  /\ LET op(ub) == circle64fShortInputMedium(call[t], Mem(t), ub)
         g == op(NoUB)
     IN  \E h \in IF StaysInObject(call[t], g, Mem(t)) THEN {g}
                  ELSE {op(ub) : ub \in UB} :
           call' = [call EXCEPT ![t] = h]
  /\ UNCHANGED <<data, build>>

ShortTailStep(t) ==
  /\ At(t, "circle64fShortInput", "medium") /\ call[t].dlen <= 16
  /\ LET op(ub) == circle64fShortInputTail(call[t], Mem(t), ub)
         g == op(NoUB)
     IN  \E h \in IF StaysInObject(call[t], g, Mem(t)) THEN {g}
                  ELSE {op(ub) : ub \in UB} :
           call' = [call EXCEPT ![t] = h]
  /\ UNCHANGED <<data, build>>

ShortFinalStep(t) ==
  /\ At(t, "circle64fShortInput", "final")
  /\ call' = [call EXCEPT ![t] = circle64fShortInputFinal(call[t])]
  /\ UNCHANGED <<data, build>>

Uint64x2Step(t) ==
  /\ At(t, "circle64fUint64x2", "x2")
  /\ call' = [call EXCEPT ![t] = circle64fUint64x2(call[t])]
  /\ UNCHANGED <<data, build>>

\* the call returns its digest and its frame is popped
ReturnStep(t) ==
  /\ call[t].pc = "done"
  /\ call' = [call EXCEPT ![t] = IdleFrame]
  /\ UNCHANGED <<data, build>>

\* the steps of a call that is under way
Step(t) ==
  \/ BulkStep(t)
  \/ FoldStep(t)
  \/ MediumStep(t)
  \/ TailStep(t)
  \/ FinalStep(t)
  \/ ShortMediumStep(t)
  \/ ShortTailStep(t)
  \/ ShortFinalStep(t)
  \/ Uint64x2Step(t)

Next ==
  \/ CallHash64(Caller)
  \/ CallHash64String(Caller)
  \/ CallHash64Uint64x2(Caller)
  \/ Step(Caller)
  \/ ReturnStep(Caller)

Spec == Init /\ [][Next]_vars

TypeOK ==
  /\ data \in Buffers
  /\ build \in Builds
  /\ \A t \in Threads : call[t].result \in Word

-----------------------------------------------------------------------------
(* the digest as the specification's five steps define it, on a byte       *)
(* sequence d (1-based) and a seed                                         *)

\* the w-byte little-endian word at offset pos of d, zero-extended to 64 bits
RefWord(d, pos, w) ==
  LET digit(i) == IF i <= w THEN d[pos + i] ELSE 0
  IN  <<digit(1), digit(2), digit(3), digit(4), digit(5), digit(6), digit(7), digit(8)>>

RECURSIVE RefBulk(_, _, _, _)
\* step 2: the two lanes over the 64-byte chunks from pos on; <<pos, cs, ds>>
RefBulk(d, pos, cs, ds) ==
  IF Len(d) - pos > 64
  THEN RefBulk(d, pos + 64,
               XOR(mix64(XOR(RefWord(d, pos, 8), pi1), XOR(RefWord(d, pos + 8, 8), cs)),
                   mix64(XOR(RefWord(d, pos + 16, 8), pi2), XOR(RefWord(d, pos + 24, 8), cs))),
               XOR(mix64(XOR(RefWord(d, pos + 32, 8), pi3), XOR(RefWord(d, pos + 40, 8), ds)),
                   mix64(XOR(RefWord(d, pos + 48, 8), pi4), XOR(RefWord(d, pos + 56, 8), ds))))
  ELSE <<pos, cs, ds>>

RECURSIVE RefMedium(_, _, _)
\* step 3: the 16-byte chunks from pos on; <<pos, cs>>
RefMedium(d, pos, cs) ==
  IF Len(d) - pos > 16
  THEN RefMedium(d, pos + 16,
                 mix64(XOR(RefWord(d, pos, 8), pi1), XOR(RefWord(d, pos + 8, 8), cs)))
  ELSE <<pos, cs>>

\* step 4: the tail words <<a, b>> of the r = Len(d) - pos remaining bytes
RefTail(d, pos) ==
  LET r == Len(d) - pos
  IN  IF r > 8 THEN <<RefWord(d, pos, 8), RefWord(d, Len(d) - 8, 8)>>
      ELSE IF r >= 4 THEN <<RefWord(d, pos, 4), RefWord(d, Len(d) - 4, 4)>>
      ELSE IF r >= 1 THEN <<<<d[pos + r], d[pos + (r \div 2) + 1], d[pos + 1], 0, 0, 0, 0, 0>>,
                            Zero64>>
      ELSE <<Zero64, Zero64>>

\* steps 1 to 5
RefDigest(d, seed) ==
  LET s0 == XOR(seed, pi0)
      bulk == IF Len(d) > 64
              THEN LET r == RefBulk(d, 0, s0, s0) IN <<r[1], XOR(r[2], r[3])>>
              ELSE <<0, s0>>
      med == RefMedium(d, bulk[1], bulk[2])
      ab == RefTail(d, med[1])
      w == mix64(XOR(ab[1], pi1), XOR(ab[2], med[2]))
  IN  mix64(w, XOR(pi4, ToWord(Len(d))))

-----------------------------------------------------------------------------
(* claims *)

\* the call of thread t has returned from the entry point e
Returned(t, e) == call[t].pc = "done" /\ call[t].entry = e

\* the bytes Hash64 was called on: data[base : base+startingLength]
InputOf(f) == StringOf(data, f.base, f.startingLength)

\* C1: whenever Hash64 has returned, for an input of any length 0..MaxLen
\* and any seed, its digest is the one the five-step reference algorithm
\* of the specification gives for the same bytes and seed.
C1_Hash64IsReference ==
  \A t \in Threads :
    Returned(t, "Hash64") =>
      call[t].result = RefDigest(InputOf(call[t]), call[t].seed)

\* Hash64 has returned the digest of a 100-byte input: one bulk iteration,
\* two medium iterations and a 4-byte tail
C1_Witness ==
  /\ Returned(1, "Hash64")
  /\ call[1].startingLength = 100
  /\ call[1].bulkIters = 1 /\ call[1].mediumIters = 2 /\ call[1].dlen = 4
  /\ call[1].result = RefDigest(InputOf(call[1]), call[1].seed)

\* C2: whenever Hash64 has returned the digest of d, Hash64String on
\* string(d) with the same seed returns the same digest, at every length,
\* on both sides of the 64-byte dispatch boundary.
C2_StringEqualsBytes ==
  \A t \in Threads :
    Returned(t, "Hash64") =>
      call[t].result =
        Run(Hash64String(build, InputOf(call[t]), call[t].seed), data).result

\* Hash64 has returned the digest of a 65-byte input, the first length that
\* is dispatched to the general path
C2_Witness ==
  /\ Returned(1, "Hash64")
  /\ call[1].startingLength = 65
  /\ build = "go1.17"
  /\ call[1].impl = "circle64f"
  /\ Run(Hash64String(build, InputOf(call[1]), call[1].seed), data).impl = "circle64f"

\* C3: whenever Hash64Uint64x2(a, b, s) has returned, with a and b the
\* little-endian words of the two halves of the 16-byte buffer d, its digest
\* is the digest Hash64(d, s) returns.
C3_PairEqualsHash64 ==
  \A t \in Threads :
    Returned(t, "Hash64Uint64x2") =>
      call[t].result = Run(Hash64(build, call[t].base, 16, call[t].seed), data).result

\* Hash64Uint64x2 has returned for a window of 16 different bytes
C3_Witness ==
  /\ Returned(1, "Hash64Uint64x2")
  /\ data = data00FF
  /\ call[1].a # call[1].b
  /\ call[1].a = LittleEndianUint64(data, call[1].base)

\* C4: whenever circle64fShortInput has returned the digest of an input of
\* 0..64 bytes, the general path circle64f returns the same digest on the
\* same bytes and seed.
C4_ShortEqualsGeneral ==
  \A t \in Threads :
    (call[t].pc = "done" /\ call[t].impl = "circle64fShortInput") =>
      /\ call[t].startingLength <= 64
      /\ call[t].result =
           Run(circle64fEnter(call[t].entry, call[t].obj, call[t].str, call[t].base,
                              call[t].seed, call[t].startingLength), data).result

\* circle64fShortInput has returned the digest of a 64-byte input after
\* three medium iterations
C4_Witness ==
  /\ call[1].pc = "done"
  /\ call[1].impl = "circle64fShortInput"
  /\ call[1].startingLength = 64
  /\ call[1].mediumIters = 3

\* the build that is not running
OtherBuild == IF build = "go1.17" THEN "oldgo" ELSE "go1.17"

\* the frame in which the call of frame f would start under the build bld
SameCall(bld, f) ==
  CASE f.entry = "Hash64" -> Hash64(bld, f.base, f.startingLength, f.seed)
    [] f.entry = "Hash64String" -> Hash64String(bld, f.str, f.seed)
    [] f.entry = "Hash64Uint64x2" -> Hash64Uint64x2(bld, f.a, f.b, f.seed, f.base)

\* C5: whenever Hash64, Hash64String or Hash64Uint64x2 has returned under
\* one build, the same call under the other build returns the same digest.
C5_BuildsAgree ==
  \A t \in Threads :
    call[t].pc = "done" =>
      call[t].result = Run(SameCall(OtherBuild, call[t]), data).result

\* the old build has returned from Hash64 on a 40-byte input, which the new
\* build hands to circle64fShortInput instead of circle64f
C5_Witness ==
  /\ build = "oldgo"
  /\ Returned(1, "Hash64")
  /\ call[1].startingLength = 40
  /\ call[1].impl = "circle64fRef"
  /\ Run(SameCall(OtherBuild, call[1]), data).impl = "circle64fShortInput"

\* C6: the digest Hash64 returns depends on the content, the length and the
\* seed only: it is the digest of the same bytes hashed alone in a buffer
\* of their own, and the digest of every other place of the caller's buffer
\* that holds the same bytes, whatever calls came before.
C6_PureFunction ==
  \A t \in Threads :
    Returned(t, "Hash64") =>
      LET f == call[t]
          d == InputOf(f)
      IN  /\ f.result = Run(Hash64(build, 0, f.startingLength, f.seed), d).result
          /\ \A off \in 0..MaxOff :
               StringOf(data, off, f.startingLength) = d =>
                 f.result = Run(Hash64(build, off, f.startingLength, f.seed), data).result

\* Hash64 has returned the digest of the 70 bytes data[2:72], which are the
\* same bytes as the prefix data[0:70] but not the same as data[1:71]
C6_Witness ==
  /\ Returned(1, "Hash64")
  /\ call[1].base = 2
  /\ call[1].startingLength = 70
  /\ StringOf(data, 0, 70) = InputOf(call[1])
  /\ StringOf(data, 1, 70) # InputOf(call[1])

\* the read r lies inside the input of frame f
ReadInside(f, r) == f.base <= r.at /\ r.at + r.width <= f.base + f.startingLength

\* C7: every read a call has performed, of 8, 4 or 1 bytes, covers only
\* bytes of its input [base, base + length), and a call on the empty input
\* has read nothing.
C7_ReadsInBounds ==
  \A t \in Threads :
    /\ \A i \in 1..Len(call[t].reads) :
         /\ call[t].reads[i].width \in {1, 4, 8}
         /\ ReadInside(call[t], call[t].reads[i])
    /\ call[t].startingLength = 0 => call[t].reads = <<>>

\* a call on 100 bytes has done its 8 + 4 reads of the loops and the two
\* 4-byte reads of the tail, the last one ending at the last byte
C7_Witness ==
  /\ call[1].pc = "done"
  /\ call[1].startingLength = 100
  /\ Len(call[1].reads) = 14
  /\ call[1].reads[14] = Rd(call[1].base + 96, 4)

\* thread t is inside a call
InCall(t) == call[t].pc \notin {"idle", "done", "fault"}

\* C8: no step of a call writes to the caller's buffer or to the bytes of
\* the string it hashes, and a step changes the frame of one call only.
C8_InputUntouched ==
  [][/\ data' = data
     /\ build' = build
     /\ \A t \in Threads :
          InCall(t) => /\ call'[t].str = call[t].str
                       /\ call'[t].obj = call[t].obj
                       /\ call'[t].base = call[t].base
     /\ \A t, u \in Threads :
          (call'[t] # call[t] /\ call'[u] # call[u]) => t = u]_vars

\* Hash64String has run the bulk loop over the bytes of its string
C8_Witness ==
  /\ call[1].pc = "medium"
  /\ call[1].entry = "Hash64String"
  /\ call[1].bulkIters = 2
  /\ call[1].str = StringOf(data, 1, 130)

\* the position pc is one of the function impl, so that the call has a
\* next statement to execute
HasCode(f) ==
  \/ f.impl \in {"circle64f", "circle64fRef"} /\ f.pc \in {"bulk", "medium", "final"}
  \/ f.impl = "circle64fShortInput" /\ f.pc \in {"medium", "final"}
  \/ f.impl = "circle64fUint64x2" /\ f.pc = "x2"

\* C9: a call never faults, is never stuck inside the function, and what it
\* returns is a 64-bit value, for every length from 0 on and every seed.
C9_Total ==
  \A t \in Threads :
    /\ call[t].pc \in {"idle", "bulk", "medium", "final", "x2", "done"}
    /\ InCall(t) => HasCode(call[t])
    /\ call[t].pc = "done" => call[t].result \in Word

\* Hash64String has returned the digest of the empty string
C9_Witness ==
  /\ Returned(1, "Hash64String")
  /\ call[1].startingLength = 0
  /\ call[1].str = <<>>
  /\ call[1].result \in Word

\* ceil(n / 16)
CeilDiv16(n) == (n + 15) \div 16

\* the loops have consumed 64 bytes per bulk iteration and 16 per medium
\* iteration, and have run at most ceil(L/16) times
LoopVariant(f) ==
  /\ f.dlen = f.startingLength - 64 * f.bulkIters - 16 * f.mediumIters
  /\ f.dlen >= 0
  /\ f.bulkIters + f.mediumIters <= CeilDiv16(f.startingLength)

\* what a call still has to do: the remaining length first, then the
\* statements after the loops (fold, tail, finalization)
Rank(f) ==
  4 * f.dlen + (CASE f.pc = "bulk" -> 3
                  [] f.pc = "medium" -> 2
                  [] f.pc \in {"final", "x2"} -> 1
                  [] OTHER -> 0)

\* a step of the call of thread t is a loop iteration that lowers dlen by
\* 64 or by 16, or one of the single statements after the loops
StepShape(t) ==
  LET f == call[t]
      g == call'[t]
  IN  \/ /\ f.pc = "bulk" /\ g.pc = "bulk"
         /\ g.dlen = f.dlen - 64 /\ g.bulkIters = f.bulkIters + 1
         /\ g.mediumIters = f.mediumIters
      \/ /\ f.pc = "medium" /\ g.pc = "medium"
         /\ g.dlen = f.dlen - 16 /\ g.mediumIters = f.mediumIters + 1
         /\ g.bulkIters = f.bulkIters
      \/ /\ <<f.pc, g.pc>> \in {<<"bulk", "medium">>, <<"medium", "final">>,
                                <<"final", "done">>, <<"x2", "done">>}
         /\ g.dlen = f.dlen
         /\ g.bulkIters = f.bulkIters /\ g.mediumIters = f.mediumIters

\* C10: every call of Hash64 terminates: a call that is under way always
\* has a next statement, each loop iteration lowers the remaining length by
\* 64 or by 16, every step lowers the rank of the call (so it returns after
\* finitely many steps), and the loops run at most ceil(L/16) times before
\* the one tail step and the one finalization step.
C10_Terminates ==
  /\ [](\A t \in Threads :
          /\ LoopVariant(call[t])
          /\ InCall(t) => HasCode(call[t]) /\ Rank(call[t]) > 0)
  /\ [][\A t \in Threads :
          (InCall(t) /\ call'[t] # call[t]) =>
             /\ StepShape(t)
             /\ Rank(call'[t]) < Rank(call[t])
             /\ Rank(call'[t]) >= 0]_vars

\* Hash64 has returned after two bulk iterations on 129 bytes, one byte
\* being left for the tail
C10_Witness ==
  /\ Returned(1, "Hash64")
  /\ call[1].startingLength = 129
  /\ call[1].bulkIters = 2
  /\ call[1].mediumIters = 0
  /\ call[1].dlen = 1

-----------------------------------------------------------------------------
(* concurrent callers: every thread calls and steps on its own, all on the *)
(* one buffer data                                                         *)

\* length of the short input of a concurrent call: one medium iteration
ConcShort == 20

\* length of the long input of a concurrent call: one bulk iteration, the
\* fold and one medium iteration
ConcLong == 85

\* the slices data[off : off+n] the threads hash: the long one, a short one
\* inside it (shared bytes) and a short one behind it (disjoint bytes)
ConcWindows == {<<0, ConcLong>>, <<0, ConcShort>>, <<ConcLong, ConcShort>>}

ConcSeeds == {numsGoldenRatio}

ConcInit ==
  /\ data = data00FF
  /\ build \in Builds
  /\ call = [t \in Threads |-> IdleFrame]

\* digest := Hash64(data[off:off+n], seed), by thread t
ConcCallHash64(t) ==
  /\ CanCall(t)
  /\ \E w \in ConcWindows, seed \in ConcSeeds :
       call' = [call EXCEPT ![t] = Hash64(build, w[1], w[2], seed)]
  /\ UNCHANGED <<data, build>>

\* digest := Hash64String(string(data[off:off+n]), seed), by thread t
ConcCallHash64String(t) ==
  /\ CanCall(t)
  /\ \E w \in ConcWindows, seed \in ConcSeeds :
       call' = [call EXCEPT ![t] = Hash64String(build, StringOf(data, w[1], w[2]), seed)]
  /\ UNCHANGED <<data, build>>

\* digest := Hash64Uint64x2(a, b, seed), by thread t
ConcCallHash64Uint64x2(t) ==
  /\ CanCall(t)
  /\ \E w \in ConcWindows, seed \in ConcSeeds :
       call' = [call EXCEPT ![t] =
                  Hash64Uint64x2(build, LittleEndianUint64(data, w[1]),
                                 LittleEndianUint64(data, w[1] + 8), seed, w[1])]
  /\ UNCHANGED <<data, build>>

\* any thread takes the next step of its call, or calls, or returns
ConcNext ==
  \E t \in Threads :
    \/ ConcCallHash64(t)
    \/ ConcCallHash64String(t)
    \/ ConcCallHash64Uint64x2(t)
    \/ Step(t)
    \/ ReturnStep(t)

SpecConc == ConcInit /\ [][ConcNext]_vars

RECURSIVE Trace(_, _)
\* the frames a call passes through when it runs alone on the buffer buf,
\* from the frame f on
Trace(f, buf) ==
  IF f.pc \in {"idle", "done", "fault"} THEN {f}
  ELSE {f} \cup Trace(NextFrame(f, ObjectOf(f, buf), NoUB), buf)

\* the calls the threads make, as the frames they start in under build bld
ConcCalls(bld) ==
  UNION {{Hash64(bld, w[1], w[2], seed),
          Hash64String(bld, StringOf(data00FF, w[1], w[2]), seed),
          Hash64Uint64x2(bld, LittleEndianUint64(data00FF, w[1]),
                         LittleEndianUint64(data00FF, w[1] + 8), seed, w[1])} :
         w \in ConcWindows, seed \in ConcSeeds}

\* every frame of every one of these calls run alone, per build
SoloFrames == [bld \in Builds |-> UNION {Trace(f, data00FF) : f \in ConcCalls(bld)}]

\* C11: under every interleaving of the steps of concurrent calls, on
\* disjoint or on shared bytes of the buffer, the frame of each call is at
\* every moment a frame of the same call run alone, so that the call returns
\* the digest it returns alone; a step of one call leaves the frames of the
\* other calls as they are.
C11_ConcurrentCallsAlone ==
  /\ [](\A t \in Threads :
          call[t].pc # "idle" =>
            /\ call[t] \in SoloFrames[build]
            /\ call[t].pc = "done" =>
                 call[t].result = Run(SameCall(build, call[t]), data).result)
  /\ [][\A t, u \in Threads :
          (call'[t] # call[t] /\ u # t) => call'[u] = call[u]]_vars

\* two calls on the same 85 bytes are under way at once, one after its fold
\* and one still before its first bulk iteration, while neither has returned
C11_Witness ==
  /\ AtGeneral(1, "medium") /\ call[1].folds = 1 /\ call[1].mediumIters = 1
  /\ AtGeneral(2, "bulk") /\ call[2].bulkIters = 0
  /\ call[1].base = 0 /\ call[2].base = 0
  /\ call[1].entry = "Hash64" /\ call[2].entry = "Hash64"
  /\ call[1].startingLength = ConcLong /\ call[2].startingLength = ConcLong

-----------------------------------------------------------------------------
(* the seeds of the test suite on the shortest inputs *)

\* numsGoldenRatioInv = numsGoldenRatio ^ numsAllFFs
numsGoldenRatioInv == XOR(numsGoldenRatio, numsAllFFs)

\* the six seeds of the test cases
nums == {numsAllZeros, numsAll55s, numsAllAAs, numsAllFFs, numsGoldenRatio,
         numsGoldenRatioInv}

\* longest input of the calls made with all six seeds
MaxTiny == 3

\* digest := Hash64(data[off:off+n], seed) for an input of at most MaxTiny
\* bytes, the empty one (data[0:0], make([]byte, 0)) among them
TinyCallHash64(t) ==
  /\ CanCall(t)
  /\ \E off \in 0..MaxOff, n \in 0..MaxTiny, seed \in nums :
       call' = [call EXCEPT ![t] = Hash64(build, off, n, seed)]
  /\ UNCHANGED <<data, build>>

\* inputs this short take the tail switch and the finalization only
TinyNext ==
  \/ TinyCallHash64(Caller)
  \/ TailStep(Caller)
  \/ FinalStep(Caller)
  \/ ShortTailStep(Caller)
  \/ ShortFinalStep(Caller)
  \/ ReturnStep(Caller)

SpecTiny == Init /\ [][TinyNext]_vars

\* want of TestCircleHash64EmptyInputs, by seed
EmptyWant ==
  <<<<numsAllZeros, U64(83, 9, 123, 142, 214, 120, 175, 118)>>,
    <<numsAll55s, U64(212, 243, 46, 25, 141, 178, 206, 103)>>,
    <<numsAllAAs, U64(91, 135, 45, 254, 31, 195, 62, 145)>>,
    <<numsAllFFs, U64(104, 123, 110, 93, 227, 134, 213, 13)>>,
    <<numsGoldenRatio, U64(21, 58, 245, 8, 161, 10, 8, 37)>>,
    <<numsGoldenRatioInv, U64(78, 202, 114, 110, 50, 63, 196, 41)>>>>

\* C12: Hash64 of the empty input returns, for each of the six seeds, the
\* digest the test expects (0x53097B8ED678AF76 for seed 0, 0xD4F32E198DB2CE67
\* for 0x55.., 0x5B872DFE1FC33E91 for 0xAA.., 0x687B6E5DE386D50D for 0xFF..,
\* 0x153AF508A10A0825 for the golden ratio and 0x4ECA726E323FC429 for its
\* complement), and two different seeds of the six give different digests.
C12_EmptyInputDigests ==
  \A t \in Threads :
    (Returned(t, "Hash64") /\ call[t].startingLength = 0) =>
      /\ \E i \in 1..Len(EmptyWant) :
           EmptyWant[i][1] = call[t].seed /\ EmptyWant[i][2] = call[t].result
      /\ \A seed \in nums \ {call[t].seed} :
           Run(Hash64(build, call[t].base, 0, seed), data).result # call[t].result

\* Hash64 has returned 0x4ECA726E323FC429 for the empty input and the
\* complement of the golden ratio as seed
C12_Witness ==
  /\ Returned(1, "Hash64")
  /\ call[1].startingLength = 0
  /\ call[1].reads = <<>>
  /\ call[1].seed = numsGoldenRatioInv
  /\ call[1].result = EmptyWant[6][2]

-----------------------------------------------------------------------------
(* the 128-bit product by long multiplication: one row per digit of b,     *)
(* the rows added up                                                       *)

RECURSIVE RowDigits(_, _, _, _)
\* the digits k..8 of a * d and the last carry, for a single digit d
RowDigits(a, d, k, carry) ==
  IF k > 8 THEN <<carry>>
  ELSE LET s == a[k] * d + carry
       IN  <<s % 256>> \o RowDigits(a, d, k + 1, s \div 256)

\* a * d * 256^shift as 16 digits
Row(a, d, shift) ==
  LET r == RowDigits(a, d, 1, 0)
  IN  [i \in 1..16 |-> IF i > shift /\ i - shift <= 9 THEN r[i - shift] ELSE 0]

RECURSIVE AddDigits(_, _, _, _)
\* the digits k..16 of x + y
AddDigits(x, y, k, carry) ==
  IF k > 16 THEN <<>>
  ELSE LET s == x[k] + y[k] + carry
       IN  <<s % 256>> \o AddDigits(x, y, k + 1, s \div 256)

RECURSIVE RowSum(_, _, _)
\* the sum of the rows i..8 of a * b
RowSum(a, b, i) ==
  IF i > 8 THEN [k \in 1..16 |-> 0]
  ELSE AddDigits(Row(a, b[i], i - 1), RowSum(a, b, i + 1), 1, 0)

\* hi and lo of the unsigned 128-bit product a * b
Product128(a, b) ==
  LET d == RowSum(a, b, 1)
  IN  [hi |-> <<d[9], d[10], d[11], d[12], d[13], d[14], d[15], d[16]>>,
       lo |-> <<d[1], d[2], d[3], d[4], d[5], d[6], d[7], d[8]>>]

\* mix64(x, y) is hi XOR lo of the full product, and is not lo when the
\* product does not fit 64 bits
FoldsFullProduct(x, y) ==
  LET m == Product128(x, y)
  IN  /\ mix64(x, y) = XOR(m.hi, m.lo)
      /\ m.hi # Zero64 => mix64(x, y) # m.lo

\* C13: for the operands of the two mix64 calls of every finalization,
\* mix64(a, b) is hi XOR lo of the full unsigned 128-bit product a * b, and
\* whenever the product exceeds 64 bits it differs from the low 64 bits of
\* the product; the digest returned is such a fold of w * z.
C13_Mix64FoldsFullProduct ==
  \A t \in Threads :
    call[t].pc = "done" =>
      LET f == call[t]
          x == XOR(f.a, pi1)
          y == XOR(f.b, f.currentState)
          w == XOR(Product128(x, y).hi, Product128(x, y).lo)
          z == XOR(pi4, ToWord(f.startingLength))
      IN  /\ FoldsFullProduct(x, y)
          /\ FoldsFullProduct(w, z)
          /\ f.result = XOR(Product128(w, z).hi, Product128(w, z).lo)

\* a call has returned a digest whose last product w * z does not fit 64
\* bits and whose low half is not the digest
C13_Witness ==
  /\ call[1].pc = "done"
  /\ LET f == call[1]
         w == mix64(XOR(f.a, pi1), XOR(f.b, f.currentState))
         m == Product128(w, XOR(pi4, ToWord(f.startingLength)))
     IN  /\ m.hi # Zero64
         /\ m.lo # f.result
         /\ XOR(m.hi, m.lo) = f.result

-----------------------------------------------------------------------------
(* dispatch and the shape of the loops *)

\* C15: in the build for Go 1.17 and newer, a call of Hash64 or Hash64String
\* is inside circle64fShortInput exactly when its input has at most 64 bytes
\* and inside circle64f exactly when it has more than 64; no call is ever
\* inside circle64fShortInput with more than 64 bytes left or given, and the
\* other build never enters circle64fShortInput.
C15_DispatchByLength ==
  \A t \in Threads :
    LET f == call[t]
    IN  /\ (build = "go1.17" /\ f.entry \in {"Hash64", "Hash64String"}) =>
             /\ f.impl \in {"circle64fShortInput", "circle64f"}
             /\ f.impl = "circle64fShortInput" <=> f.startingLength <= 64
             /\ f.impl = "circle64f" <=> f.startingLength > 64
        /\ f.impl = "circle64fShortInput" =>
             /\ build = "go1.17"
             /\ f.startingLength <= 64 /\ f.dlen <= 64
             /\ f.bulkIters = 0 /\ f.folds = 0

\* Hash64String has gone through circle64fShortInput with a string of
\* exactly 64 bytes
C15_Witness ==
  /\ build = "go1.17"
  /\ call[1].entry = "Hash64String"
  /\ call[1].impl = "circle64fShortInput"
  /\ call[1].startingLength = 64
  /\ Len(call[1].str) = 64
  /\ call[1].pc = "done"

\* the frame belongs to circle64f, of either build
General(f) == f.impl \in {"circle64f", "circle64fRef"}

\* C16: duplicatedState exists only in calls on more than 64 bytes: there it
\* starts, like currentState, as seed XOR pi0, and it is folded into
\* currentState by XOR exactly once, by the step that leaves the bulk loop
\* (at most 64 bytes left, no medium iteration done yet) and never read
\* again; a call on at most 64 bytes has no bulk iteration and no fold, and
\* enters the medium loop with currentState = seed XOR pi0.
C16_SecondLaneFoldedOnce ==
  /\ [](\A t \in Threads :
          LET f == call[t]
          IN  /\ f.folds <= 1
              /\ (General(f) /\ f.pc = "bulk") =>
                   /\ f.startingLength > 64 /\ f.folds = 0 /\ f.mediumIters = 0
                   /\ f.bulkIters = 0 =>
                        /\ f.currentState = XOR(f.seed, pi0)
                        /\ f.duplicatedState = f.currentState
              /\ (General(f) /\ f.pc \in {"medium", "final", "done"}) =>
                   /\ f.folds = (IF f.startingLength > 64 THEN 1 ELSE 0)
                   /\ f.pc # "done" =>
                        Run([f EXCEPT !.duplicatedState = Zero64], data).result
                          = Run(f, data).result
              /\ (f.pc # "idle" /\ f.startingLength <= 64) =>
                   /\ f.folds = 0 /\ f.bulkIters = 0
                   /\ f.impl # "circle64fUint64x2" => f.duplicatedState = Zero64
                   /\ (f.pc = "medium" /\ f.mediumIters = 0) =>
                        f.currentState = XOR(f.seed, pi0))
  /\ [][\A t \in Threads :
          LET f == call[t]
              g == call'[t]
          IN  /\ (InCall(t) /\ g.folds # f.folds) =>
                   /\ g.folds = f.folds + 1
                   /\ f.pc = "bulk" /\ g.pc = "medium"
                   /\ f.bulkIters >= 1 /\ f.dlen <= 64 /\ f.dlen >= 1
                   /\ g.mediumIters = 0
                   /\ g.currentState = XOR(f.currentState, f.duplicatedState)
              /\ (InCall(t) /\ f.pc = "bulk" /\ g.pc # "bulk") =>
                   g.folds = f.folds + 1]_vars

\* a call on 129 bytes has just folded the second lane after two bulk
\* iterations and has not started the medium loop
C16_Witness ==
  /\ call[1].impl = "circle64f"
  /\ call[1].pc = "medium"
  /\ call[1].startingLength = 129
  /\ call[1].bulkIters = 2 /\ call[1].folds = 1 /\ call[1].mediumIters = 0
  /\ call[1].duplicatedState # Zero64
  /\ call[1].currentState # XOR(call[1].seed, pi0)

\* floor((L - 1) / 64) for L > 64, and 0 for L <= 64
BulkCount(L) == IF L > 64 THEN (L - 1) \div 64 ELSE 0

\* C17: for an input of L bytes the bulk loop of circle64f has run, when it
\* is left, exactly floor((L-1)/64) times if L > 64 and not at all if
\* L <= 64, never more before; when it has run, the fold finds between 1 and
\* 64 bytes unprocessed, namely L - 64 * floor((L-1)/64): 64 bytes get no
\* iteration, 128 bytes get one and leave 64.
C17_BulkIterations ==
  \A t \in Threads :
    LET f == call[t]
        L == f.startingLength
    IN  General(f) =>
          /\ f.bulkIters <= BulkCount(L)
          /\ f.pc = "bulk" => f.dlen = L - 64 * f.bulkIters /\ f.dlen >= 1
          /\ f.pc \in {"medium", "final", "done"} =>
               /\ f.bulkIters = BulkCount(L)
               /\ L <= 64 => f.bulkIters = 0
               /\ f.folds = 1 =>
                    /\ f.bulkIters >= 1
                    /\ f.dlen + 16 * f.mediumIters = L - 64 * f.bulkIters
                    /\ f.dlen + 16 * f.mediumIters \in 1..64
               /\ L = 64 => f.bulkIters = 0 /\ f.dlen + 16 * f.mediumIters = 64
               /\ L = 128 => f.bulkIters = 1 /\ f.dlen + 16 * f.mediumIters = 64

\* circle64f has left the bulk loop on 128 bytes after one iteration, with
\* 64 bytes unprocessed
C17_Witness ==
  /\ General(call[1])
  /\ call[1].pc = "medium"
  /\ call[1].startingLength = 128
  /\ call[1].bulkIters = 1 /\ call[1].folds = 1
  /\ call[1].mediumIters = 0 /\ call[1].dlen = 64

\* the bytes a call hashes: the slice of data, or the string
BytesOf(f) == IF f.obj = "data" THEN StringOf(data, f.base, f.startingLength) ELSE f.str

\* C18: a bulk iteration, with a..h the eight little-endian words of the
\* current 64-byte chunk, sets currentState to cs0 XOR cs1 with
\* cs0 = mix64(a XOR pi1, b XOR currentState) and
\* cs1 = mix64(c XOR pi2, d XOR currentState), and duplicatedState to
\* ds0 XOR ds1 with ds0 = mix64(e XOR pi3, f XOR duplicatedState) and
\* ds1 = mix64(g XOR pi4, h XOR duplicatedState), all four taking the values
\* the two accumulators had before the iteration.
C18_BulkIteration ==
  [][\A t \in Threads :
       LET f == call[t]
           g == call'[t]
           d == BytesOf(f)
           pos == 64 * f.bulkIters
           w(k) == RefWord(d, pos + 8 * k, 8)
           cs0 == mix64(XOR(w(0), pi1), XOR(w(1), f.currentState))
           cs1 == mix64(XOR(w(2), pi2), XOR(w(3), f.currentState))
           ds0 == mix64(XOR(w(4), pi3), XOR(w(5), f.duplicatedState))
           ds1 == mix64(XOR(w(6), pi4), XOR(w(7), f.duplicatedState))
       IN  (InCall(t) /\ g.bulkIters # f.bulkIters) =>
             /\ g.bulkIters = f.bulkIters + 1
             /\ g.currentState = XOR(cs0, cs1)
             /\ g.duplicatedState = XOR(ds0, ds1)
             /\ g.p = f.p + 64 /\ g.dlen = f.dlen - 64]_vars

\* the second bulk iteration of circle64f on 130 bytes is done: both
\* accumulators have left their common starting value and differ
C18_Witness ==
  /\ call[1].impl = "circle64f"
  /\ call[1].pc = "bulk"
  /\ call[1].startingLength = 130
  /\ call[1].bulkIters = 2
  /\ call[1].currentState # call[1].duplicatedState
  /\ call[1].currentState # XOR(call[1].seed, pi0)

-----------------------------------------------------------------------------
(* the two lanes of the bulk loop *)

\* digest := Hash64(data[0:n], seed) for an input that takes the bulk loop
LaneCallHash64(t) ==
  /\ CanCall(t)
  /\ \E n \in 65..MaxLen, seed \in Seeds :
       call' = [call EXCEPT ![t] = Hash64(build, 0, n, seed)]
  /\ UNCHANGED <<data, build>>

\* a call on more than 64 bytes takes the steps of circle64f
LaneNext ==
  \/ LaneCallHash64(Caller)
  \/ BulkStep(Caller)
  \/ FoldStep(Caller)
  \/ MediumStep(Caller)
  \/ TailStep(Caller)
  \/ FinalStep(Caller)
  \/ ReturnStep(Caller)

SpecLanes == Init /\ [][LaneNext]_vars

\* the positions inside a 64-byte chunk that the first lane reads (words a
\* to d) and that the second lane reads (words e to h)
LowerHalf == 0..31
UpperHalf == 32..63

\* the sets of positions of a half that an input is changed at
Places(half) ==
  {half} \cup {{o} : o \in {o \in half : o % 32 \in {0, 15, 31}}}

\* the input d with every byte at the places ps of the chunks cs complemented
Changed(d, cs, ps) ==
  [i \in 1..Len(d) |->
     IF ((i - 1) \div 64) \in cs /\ ((i - 1) % 64) \in ps THEN 255 - d[i] ELSE d[i]]

\* the inputs that differ from d only in the given half of some of the
\* first n chunks
Variants(d, n, half) ==
  {Changed(d, cs, ps) : cs \in (SUBSET (0..(n - 1))) \ {{}}, ps \in Places(half)}

RECURSIVE RunBulk(_)
\* the frame at the end of the bulk loop, before the fold
RunBulk(f) ==
  IF f.pc = "bulk" /\ f.dlen > 64 THEN RunBulk(NextFrame(f, f.str, NoUB)) ELSE f

\* the frame at the end of the bulk loop of the call of frame f, had its
\* input been d
BulkEndOn(f, d) ==
  RunBulk(IF f.impl = "circle64fRef"
          THEN circle64fRefEnter(f.entry, "str", d, 0, f.seed, Len(d))
          ELSE circle64fEnter(f.entry, "str", d, 0, f.seed, Len(d)))

\* the call of thread t is at the end of the bulk loop, before the fold
AtBulkEnd(t) == AtGeneral(t, "bulk") /\ call[t].dlen <= 64

\* C19: at the end of the bulk loop, before the fold, currentState is the
\* same for every input of the same length and seed that differs from the
\* one hashed only in bytes 32..63 of some of the 64-byte chunks, and
\* duplicatedState is the same for every input that differs from it only in
\* bytes 0..31 of some chunks.
C19_LanesIndependent ==
  \A t \in Threads :
    AtBulkEnd(t) =>
      LET f == call[t]
          d == BytesOf(f)
      IN  /\ BulkEndOn(f, d).currentState = f.currentState
          /\ BulkEndOn(f, d).duplicatedState = f.duplicatedState
          /\ \A v \in Variants(d, f.bulkIters, UpperHalf) :
               BulkEndOn(f, v).currentState = f.currentState
          /\ \A v \in Variants(d, f.bulkIters, LowerHalf) :
               BulkEndOn(f, v).duplicatedState = f.duplicatedState

\* circle64f is at the end of the bulk loop on 130 bytes, and a change of
\* byte 32 of the first chunk alone reaches duplicatedState, a change of
\* byte 31 alone reaches currentState
C19_Witness ==
  /\ AtBulkEnd(1)
  /\ call[1].impl = "circle64f"
  /\ call[1].startingLength = 130 /\ call[1].bulkIters = 2
  /\ BulkEndOn(call[1], Changed(BytesOf(call[1]), {0}, {32})).duplicatedState
       # call[1].duplicatedState
  /\ BulkEndOn(call[1], Changed(BytesOf(call[1]), {0}, {31})).currentState
       # call[1].currentState

-----------------------------------------------------------------------------
(* the medium loop and what it leaves to the tail *)

\* the bytes left when the medium loop starts
AtMediumStart(f) == f.startingLength - 64 * f.bulkIters

\* floor((R - 1) / 16) for R > 0, and 0 for R = 0
MediumCount(R) == IF R > 0 THEN (R - 1) \div 16 ELSE 0

\* the reads the tail switch has done, after 8 per bulk and 2 per medium
\* iteration
TailReads(f) == Len(f.reads) - 8 * f.bulkIters - 2 * f.mediumIters

\* C20: when the medium loop has ended, between 0 and 16 bytes remain, and
\* none only if the whole input is empty: the tail of every non-empty input
\* has 1..16 bytes and is read, and only the empty input takes the default
\* a = b = 0 without a read; the loop has run floor((R-1)/16) times for the
\* R > 0 bytes left at its start, at most 3 times.
C20_MediumLeavesTail ==
  \A t \in Threads :
    LET f == call[t]
        L == f.startingLength
        R == AtMediumStart(f)
    IN  (f.impl \in {"circle64f", "circle64fRef", "circle64fShortInput"}) =>
          /\ f.mediumIters <= 3
          /\ f.pc = "medium" => f.mediumIters <= MediumCount(R)
          /\ f.pc \in {"final", "done"} =>
               /\ f.dlen \in 0..16
               /\ f.dlen = 0 <=> L = 0
               /\ L > 0 => f.dlen \in 1..16
               /\ f.mediumIters = MediumCount(R)
               /\ f.dlen = R - 16 * f.mediumIters
               /\ TailReads(f) = (IF L = 0 THEN 0 ELSE IF f.dlen <= 3 THEN 3 ELSE 2)
               /\ L = 0 => f.a = Zero64 /\ f.b = Zero64

\* circle64f has ended the medium loop on 128 bytes after one bulk and three
\* medium iterations and has read the last 16 bytes as the tail
C20_Witness ==
  /\ call[1].impl = "circle64f"
  /\ call[1].pc = "final"
  /\ call[1].startingLength = 128
  /\ call[1].bulkIters = 1 /\ call[1].mediumIters = 3
  /\ call[1].dlen = 16
  /\ TailReads(call[1]) = 2

-----------------------------------------------------------------------------
(* position, remaining length and the reads of the tail *)

\* the frame belongs to one of the functions that walk over the input
Walks(f) == f.impl \in {"circle64f", "circle64fRef", "circle64fShortInput"}

\* the bytes the loops have consumed: how far p has moved
Consumed(f) == f.p - f.base

\* C21: at every step of circle64f and of circle64fShortInput the bytes
\* consumed plus the remaining length dlen are the original length
\* startingLength, p is the start of the input plus the bytes consumed (64
\* per bulk and 16 per medium iteration), the bytes consumed are a multiple
\* of 16, and no step changes startingLength once the call has recorded it.
C21_PositionAndLength ==
  /\ [](\A t \in Threads :
          LET f == call[t]
          IN  Walks(f) =>
                /\ Consumed(f) + f.dlen = f.startingLength
                /\ Consumed(f) = 64 * f.bulkIters + 16 * f.mediumIters
                /\ Consumed(f) % 16 = 0
                /\ Consumed(f) >= 0 /\ f.dlen >= 0)
  /\ [][\A t \in Threads :
          InCall(t) => /\ call'[t].startingLength = call[t].startingLength
                       /\ call'[t].base = call[t].base
                       /\ call'[t].p >= call[t].p]_vars

\* circle64f on the 100 bytes data[2:102] has consumed 80 of them in one
\* bulk and one medium iteration
C21_Witness ==
  /\ call[1].impl = "circle64f"
  /\ call[1].pc = "medium"
  /\ call[1].base = 2
  /\ call[1].startingLength = 100
  /\ call[1].p = 82 /\ call[1].dlen = 20
  /\ call[1].bulkIters = 1 /\ call[1].mediumIters = 1

\* the frame has left the tail switch with n bytes remaining
TailDone(f, lo, hi) ==
  Walks(f) /\ f.pc \in {"final", "done"} /\ f.dlen >= lo /\ f.dlen <= hi

\* the reads of the tail switch, the last ones of the call
TailRead(f, k) == f.reads[Len(f.reads) - TailReads(f) + k]

\* C22: when 9..16 bytes remain for the tail, a is the little-endian 64-bit
\* word of the first 8 remaining bytes and b the one of the last 8 remaining
\* bytes; the two 8-byte windows overlap when fewer than 16 bytes remain and
\* are disjoint and adjacent when exactly 16 remain.
C22_TailWords ==
  \A t \in Threads :
    LET f == call[t]
        d == BytesOf(f)
    IN  TailDone(f, 9, 16) =>
          /\ f.a = RefWord(d, Consumed(f), 8)
          /\ f.b = RefWord(d, f.startingLength - 8, 8)
          /\ TailReads(f) = 2
          /\ TailRead(f, 1) = Rd(f.p, 8)
          /\ TailRead(f, 2) = Rd(f.p + f.dlen - 8, 8)
          /\ f.dlen < 16 <=> TailRead(f, 2).at < TailRead(f, 1).at + 8
          /\ f.dlen = 16 <=> TailRead(f, 2).at = TailRead(f, 1).at + 8

\* the tail of a 92-byte input has 12 bytes: the windows [80, 88) and
\* [84, 92) share four bytes and give two different words
C22_Witness ==
  /\ TailDone(call[1], 12, 12)
  /\ call[1].startingLength = 92
  /\ data = data00FF
  /\ call[1].a # call[1].b
  /\ TailRead(call[1], 2).at = TailRead(call[1], 1).at + 4

\* C23: when 4..8 bytes remain for the tail, a is the first 4 remaining bytes
\* read little-endian and zero-extended to 64 bits and b the last 4 remaining
\* bytes likewise, both below 2^32; exactly 8 remaining bytes take this case
\* with two 4-byte reads, and for exactly 4 remaining bytes a equals b.
C23_TailHalfWords ==
  \A t \in Threads :
    LET f == call[t]
        d == BytesOf(f)
    IN  TailDone(f, 4, 8) =>
          /\ f.a = RefWord(d, Consumed(f), 4)
          /\ f.b = RefWord(d, f.startingLength - 4, 4)
          /\ \A i \in 5..8 : f.a[i] = 0 /\ f.b[i] = 0
          /\ TailReads(f) = 2
          /\ TailRead(f, 1) = Rd(f.p, 4)
          /\ TailRead(f, 2) = Rd(f.p + f.dlen - 4, 4)
          /\ f.dlen = 4 => f.a = f.b

\* the tail of a 72-byte input has exactly 8 bytes and was read as two
\* 4-byte halves
C23_Witness ==
  /\ TailDone(call[1], 8, 8)
  /\ call[1].impl = "circle64f"
  /\ call[1].startingLength = 72
  /\ data = data00FF
  /\ TailRead(call[1], 1).width = 4 /\ TailRead(call[1], 2).width = 4
  /\ call[1].a # call[1].b

\* C24: when 1..3 bytes remain for the tail, a is
\* byte[0]<<16 | byte[dlen/2]<<8 | byte[dlen-1] over the remaining bytes, with
\* integer division, and b is 0; a is below 2^24; one remaining byte x gives
\* a = x * 0x010101 and with two remaining bytes the second one fills both
\* lower positions.
C24_TailBytes ==
  \A t \in Threads :
    LET f == call[t]
        d == BytesOf(f)
        c == Consumed(f)
        byte(i) == d[c + i + 1]
    IN  TailDone(f, 1, 3) =>
          /\ f.a = <<byte(f.dlen - 1), byte(f.dlen \div 2), byte(0), 0, 0, 0, 0, 0>>
          /\ f.b = Zero64
          /\ TailReads(f) = 3
          /\ f.dlen = 1 => f.a = <<byte(0), byte(0), byte(0), 0, 0, 0, 0, 0>>
          /\ f.dlen = 2 => f.a = <<byte(1), byte(1), byte(0), 0, 0, 0, 0, 0>>
          /\ f.dlen = 3 => f.a = <<byte(2), byte(1), byte(0), 0, 0, 0, 0, 0>>

\* circle64fShortInput has packed the two bytes 1, 2 of data[1:3] into
\* a = 0x010202
C24_Witness ==
  /\ TailDone(call[1], 2, 2)
  /\ call[1].impl = "circle64fShortInput"
  /\ call[1].startingLength = 2
  /\ call[1].base = 1
  /\ data = data00FF
  /\ call[1].a = <<2, 2, 1, 0, 0, 0, 0, 0>>

-----------------------------------------------------------------------------
(* finalization *)

\* the length of the input a call was given, told from the input itself
LengthOf(f) == IF f.obj = "str" THEN Len(f.str) ELSE Consumed(f) + f.dlen

\* the first mix64 of the finalization, from the tail words and the state
FinalW(f) == mix64(XOR(f.a, pi1), XOR(f.b, f.currentState))

\* C25: finalization returns mix64(w, z) with w = mix64(a XOR pi1,
\* b XOR currentState) and z = pi4 XOR startingLength, where startingLength
\* is the length of the whole input and not what the loops left over (the
\* digest differs from the one the remaining length would give), and pi1 and
\* pi4 are different constants.
C25_Finalization ==
  /\ pi1 # pi4
  /\ [][\A t \in Threads :
          LET f == call[t]
              g == call'[t]
          IN  (Walks(f) /\ f.pc = "final" /\ g.pc = "done") =>
                /\ g.result = mix64(FinalW(f), XOR(pi4, ToWord(LengthOf(f))))
                /\ f.startingLength = LengthOf(f)
                /\ f.dlen # LengthOf(f) =>
                     g.result # mix64(FinalW(f), XOR(pi4, ToWord(f.dlen)))
                /\ g.a = f.a /\ g.b = f.b /\ g.currentState = f.currentState]_vars

\* a 100-byte input has been finalized with 4 bytes left for the tail, and
\* its digest carries the length 100
C25_Witness ==
  /\ call[1].pc = "done"
  /\ call[1].impl = "circle64fRef"
  /\ call[1].dlen = 4
  /\ LengthOf(call[1]) = 100
  /\ call[1].result = mix64(FinalW(call[1]), XOR(pi4, ToWord(100)))
  /\ call[1].result # mix64(FinalW(call[1]), XOR(pi4, ToWord(4)))

-----------------------------------------------------------------------------
(* calls on chosen words: two uint64 arguments, and a buffer that carries  *)
(* the constant pi1                                                        *)

\* where the buffer carries pi1
Pi1At == 80

\* data00FF after binary.LittleEndian.PutUint64(data[Pi1At:], pi1)
dataPi1 ==
  [i \in 1..BufLen |-> IF i - 1 \in Pi1At..(Pi1At + 7) THEN pi1[i - Pi1At]
                       ELSE (i - 1) % 256]

\* the starts of the slices hashed: pi1 begins the last 16-byte chunk after one
\* bulk and one medium iteration, after one medium iteration, and at once
WordsOffsets == {Pi1At - 80, Pi1At - 16, Pi1At}

\* the words passed as a and b
WordsX2 == {pi1, Zero64, numsAllFFs, LittleEndianUint64(data00FF, 8)}

WordsInit ==
  /\ data = dataPi1
  /\ build \in Builds
  /\ call = [t \in Threads |-> IdleFrame]

\* digest := Hash64(data[off:off+n], seed)
WordsCallHash64(t) ==
  /\ CanCall(t)
  /\ \E off \in WordsOffsets, n \in 0..MaxLen, seed \in nums :
       /\ off + n <= BufLen
       /\ call' = [call EXCEPT ![t] = Hash64(build, off, n, seed)]
  /\ UNCHANGED <<data, build>>

\* digest := Hash64Uint64x2(a, b, seed)
WordsCallHash64Uint64x2(t) ==
  /\ CanCall(t)
  /\ \E a \in WordsX2, b \in WordsX2, seed \in nums :
       call' = [call EXCEPT ![t] = Hash64Uint64x2(build, a, b, seed, 0)]
  /\ UNCHANGED <<data, build>>

WordsNext ==
  \/ WordsCallHash64(Caller)
  \/ WordsCallHash64Uint64x2(Caller)
  \/ Step(Caller)
  \/ ReturnStep(Caller)

SpecWords == WordsInit /\ [][WordsNext]_vars

\* C26: Hash64Uint64x2(a, b, seed) returns
\* mix64(mix64(a XOR pi1, b XOR (seed XOR pi0)), pi4 XOR 16) for every a, b and
\* seed, in one step from its arguments: it reads nothing and runs no
\* iteration of a loop.
C26_Uint64x2Digest ==
  /\ [](\A t \in Threads :
          LET f == call[t]
          IN  Returned(t, "Hash64Uint64x2") =>
                /\ f.result = mix64(mix64(XOR(f.a, pi1), XOR(f.b, XOR(f.seed, pi0))),
                                    XOR(pi4, ToWord(16)))
                /\ f.reads = <<>>
                /\ f.bulkIters = 0 /\ f.mediumIters = 0 /\ f.folds = 0)
  /\ [][\A t \in Threads :
          LET f == call[t]
              g == call'[t]
          IN  (f.entry = "Hash64Uint64x2" /\ InCall(t)) =>
                /\ g.pc = "done"
                /\ g.a = f.a /\ g.b = f.b /\ g.seed = f.seed]_vars

\* Hash64Uint64x2(0xFFFFFFFFFFFFFFFF, pi1, 0x5555555555555555) has returned
\* its digest, which is not zero
C26_Witness ==
  /\ Returned(1, "Hash64Uint64x2")
  /\ call[1].a = numsAllFFs /\ call[1].b = pi1 /\ call[1].seed = numsAll55s
  /\ call[1].result # Zero64
  /\ call[1].result = mix64(mix64(XOR(numsAllFFs, pi1), XOR(pi1, XOR(numsAll55s, pi0))),
                            XOR(pi4, ToWord(16)))

-----------------------------------------------------------------------------
(* which bytes are read, and how often *)

\* the addresses a read covers
Covers(r) == r.at .. (r.at + r.width - 1)

\* the addresses of the input of a call
Addresses(f) == f.base .. (f.base + LengthOf(f) - 1)

\* the addresses the call has read
ReadSoFar(f) == UNION {Covers(f.reads[k]) : k \in 1..Len(f.reads)}

\* the 64-bit word of the input at address addr
WordAt(f, addr) == RefWord(BytesOf(f), addr - f.base, 8)

\* the call has made all its reads
AllRead(f) == Walks(f) /\ f.pc = "final"

\* C27: when a call on a non-empty input has made its reads, every byte of
\* the input lies inside at least one of them, the middle byte of a 3-byte
\* tail and the bytes shared by the two tail windows included; and the words
\* read are operands of mix64: each loop iteration mixes the words of its
\* chunk into the state, and the tail words go into the finalization.
C27_EveryByteRead ==
  /\ [](\A t \in Threads :
          LET f == call[t]
          IN  (AllRead(f) /\ LengthOf(f) > 0) =>
                /\ Addresses(f) \subseteq ReadSoFar(f)
                /\ f.dlen = 3 => Covers(TailRead(f, 2)) = {f.p + 1}
                /\ f.dlen \in 9..15 =>
                     (f.p + f.dlen - 8)..(f.p + 7) \subseteq
                       Covers(TailRead(f, 1)) \cap Covers(TailRead(f, 2))
                /\ f.dlen \in 5..7 =>
                     (f.p + f.dlen - 4)..(f.p + 3) \subseteq
                       Covers(TailRead(f, 1)) \cap Covers(TailRead(f, 2)))
  /\ [][\A t \in Threads :
          LET f == call[t]
              g == call'[t]
              w(k) == WordAt(f, f.p + 8 * k)
          IN  /\ (InCall(t) /\ g.mediumIters # f.mediumIters) =>
                   g.currentState = mix64(XOR(w(0), pi1), XOR(w(1), f.currentState))
              /\ (InCall(t) /\ g.bulkIters # f.bulkIters) =>
                   /\ g.currentState =
                        XOR(mix64(XOR(w(0), pi1), XOR(w(1), f.currentState)),
                            mix64(XOR(w(2), pi2), XOR(w(3), f.currentState)))
                   /\ g.duplicatedState =
                        XOR(mix64(XOR(w(4), pi3), XOR(w(5), f.duplicatedState)),
                            mix64(XOR(w(6), pi4), XOR(w(7), f.duplicatedState)))
              /\ (AllRead(f) /\ g.pc = "done") =>
                   g.result = mix64(FinalW(f), XOR(pi4, ToWord(LengthOf(f))))]_vars

\* the reference circle64f has read all of a 35-byte input: two medium
\* iterations and a 3-byte tail whose middle byte is read on its own
C27_Witness ==
  /\ AllRead(call[1])
  /\ call[1].impl = "circle64fRef"
  /\ LengthOf(call[1]) = 35
  /\ call[1].mediumIters = 2
  /\ call[1].dlen = 3
  /\ Addresses(call[1]) = ReadSoFar(call[1])

\* how many reads of the call cover the address i
Times(f, i) == Cardinality({k \in 1..Len(f.reads) : i \in Covers(f.reads[k])})

\* the reads made by the bulk and medium loops
LoopReads(f) == 8 * f.bulkIters + 2 * f.mediumIters

\* the tail lengths at which the tail reads overlap
Overlapping == {1, 2} \cup 4..7 \cup 9..15

\* C28: the reads of the bulk and medium loops are consecutive 8-byte words
\* from the start of the input, so every byte the loops consumed is read
\* exactly once; the reads of the tail lie inside the remaining bytes
\* [consumed, L) and never touch a consumed byte; some byte is read more than
\* once exactly when 1, 2, 4..7 or 9..15 bytes remain for the tail, and with
\* 3, 8 or 16 remaining bytes every byte is read exactly once.
C28_ReadOnce ==
  \A t \in Threads :
    LET f == call[t]
    IN  AllRead(f) =>
          /\ \A k \in 1..LoopReads(f) : f.reads[k] = Rd(f.base + 8 * (k - 1), 8)
          /\ 8 * LoopReads(f) = Consumed(f)
          /\ \A i \in f.base..(f.p - 1) : Times(f, i) = 1
          /\ \A k \in 1..TailReads(f) :
               Covers(TailRead(f, k)) \subseteq f.p..(f.base + LengthOf(f) - 1)
          /\ (\E i \in Addresses(f) : Times(f, i) > 1) <=> f.dlen \in Overlapping
          /\ f.dlen \in {3, 8, 16} => \A i \in Addresses(f) : Times(f, i) = 1

\* circle64f has read all of a 93-byte input: 80 bytes by the loops, each
\* once, and the 13-byte tail by two words that share three bytes
C28_Witness ==
  /\ AllRead(call[1])
  /\ call[1].impl = "circle64f"
  /\ LengthOf(call[1]) = 93
  /\ Consumed(call[1]) = 80
  /\ call[1].dlen = 13
  /\ Times(call[1], call[1].p - 1) = 1
  /\ Times(call[1], call[1].p + 5) = 2
  /\ Times(call[1], call[1].p + 4) = 1

-----------------------------------------------------------------------------
(* multiplication by zero *)

\* C29: mix64 returns 0 when either operand is 0, so the finalization loses
\* the accumulated state when a XOR pi1 is 0: Hash64Uint64x2(pi1, b, seed)
\* returns 0 for every b and seed, and Hash64 returns 0 for every seed on
\* every input whose tail word a is pi1, such as a 16-byte input that begins
\* with pi1 in little-endian order, whatever the other bytes are.
C29_ZeroOperandLosesState ==
  \A t \in Threads :
    LET f == call[t]
    IN  /\ f.pc = "done" =>
             \A x \in {f.a, f.b, f.currentState, f.seed, f.result} :
               mix64(x, Zero64) = Zero64 /\ mix64(Zero64, x) = Zero64
        /\ (Returned(t, "Hash64Uint64x2") /\ f.a = pi1) => f.result = Zero64
        /\ (Returned(t, "Hash64") /\ f.a = pi1) => f.result = Zero64
        /\ (Returned(t, "Hash64") /\ f.dlen \in 9..16 /\ WordAt(f, f.p) = pi1) =>
             f.result = Zero64
        /\ (Returned(t, "Hash64") /\ LengthOf(f) = 16 /\ WordAt(f, f.base) = pi1) =>
             f.a = pi1 /\ f.result = Zero64

\* Hash64 has returned 0 for the 16 bytes of the buffer that begin with pi1,
\* under the golden-ratio seed and with a second tail word that is not zero
C29_Witness ==
  /\ Returned(1, "Hash64")
  /\ call[1].impl = "circle64fShortInput"
  /\ LengthOf(call[1]) = 16
  /\ call[1].base = Pi1At
  /\ call[1].seed = numsGoldenRatio
  /\ call[1].a = pi1
  /\ call[1].b # Zero64
  /\ call[1].currentState # Zero64
  /\ call[1].result = Zero64

====
